---- MODULE Spec2Model ----
(***************************************************************************)
(* Model of the portal: the login endpoint (credential check), the        *)
(* password-validation endpoint, the hierarchy resolver getHierarchicalData *)
(* in its two variants and its formatter, the Superset guest-token         *)
(* endpoint, the DatabaseManager client cache, and the browser's auth      *)
(* store with the login page's submit flow.                                *)
(*                                                                         *)
(* Text values are sequences of one-character strings, so that template    *)
(* formatting and String.split are computed character by character.        *)
(* NULL stands for JavaScript null/undefined; it is a one-element tuple    *)
(* whose element is no character, so it differs from every text.           *)
(* An optional record (the result of findFirst) is <<>> or <<row>>.        *)
(***************************************************************************)
EXTENDS Integers, Sequences, FiniteSets, TLC

VARIABLES
    users,       \* telephony_account.mst_users, in table order
    roles,       \* telephony_account.mst_role
    mappings,    \* telephony_account.mst_user_mapping
    categories,  \* telephony_master.mst_category_telephony
    hfor,        \* user id the resolver was last called with
    hres,        \* outcome of that call (hierarchicalData of the login request)
    pc,          \* position of the login request handler
    body,        \* parsed body of the login request in progress
    found,       \* user row matched by the login lookup
    log,         \* side effects of the login request so far, in order
    resp,        \* response of the login request
    refreshTokenStore, \* the guest-token route's stored Superset refresh token
    gpc,         \* position of the guest-token request handler
    greq,        \* the guest-token request in progress
    dashboardId, \* dashboard selected for it
    accessToken, \* Superset access token obtained for it
    csrfToken,   \* Superset CSRF token obtained for it
    glog,        \* requests sent to Superset for it, in order
    gresp,       \* response of the guest-token request
    env,         \* database names whose URL environment variable is set
    connectionUrls, \* DatabaseManager.connectionUrls: names with a cached URL
    instances,   \* DatabaseManager.instances: name -> client (0: no entry)
    clients,     \* every Prisma client constructed so far, in order
    dcall,       \* the last DatabaseManager call and its outcome
    dpc,         \* position of disconnectAll
    asked,       \* names a client was asked for so far
    authStore,   \* the browser's persisted auth store
    page,        \* the browser's page: route and progress of handleSubmit
    ffor,        \* user id the fallback-variant resolver was last called with
    fres,        \* outcome of that call
    memo,        \* the first resolution made: its user id and its outcome
    walk         \* the resolution in progress: its position and its lookups

dbvars == <<users, roles, mappings, categories>>
resolvervars == <<hfor, hres>>
loginvars == <<pc, body, found, log, resp>>
guestvars ==
    <<refreshTokenStore, gpc, greq, dashboardId, accessToken, csrfToken, glog, gresp>>
managervars == <<env, connectionUrls, instances, clients, dcall, dpc, asked>>
clientvars == <<authStore, page>>
fallbackvars == <<ffor, fres, walk>>
vars ==
    <<users, roles, mappings, categories, hfor, hres, pc, body, found, log, resp,
      refreshTokenStore, gpc, greq, dashboardId, accessToken, csrfToken, glog, gresp,
      env, connectionUrls, instances, clients, dcall, dpc, asked, authStore, page,
      ffor, fres, memo, walk>>

----------------------------------------------------------------------------
(* Bounds of the data the model draws from. *)

\* roles of access level 1..MaxAccessLevel exist in mst_role
MaxAccessLevel == 5

----------------------------------------------------------------------------
(* Text and JavaScript value helpers. *)

NULL == <<"<null>">>
EMPTY == <<>>
ZERO == <<"0">>
ALL == <<"A", "L", "L">>
SEP == <<" ", "-", " ">>

\* JavaScript truthiness of a nullable string
Truthy(x) == x # NULL /\ x # EMPTY

\* a ?? b
Coalesce(a, b) == IF a = NULL THEN b ELSE a

Digits == <<"0", "1", "2", "3", "4", "5", "6", "7", "8", "9">>
Digit(n) == Digits[n + 1]

\* String(n) for a small non-negative integer
NumText(n) == IF n < 10 THEN <<Digit(n)>> ELSE <<Digit(n \div 10), Digit(n % 10)>>

U1 == <<"U", "1">>
U2 == <<"U", "2">>
U3 == <<"U", "3">>
U9 == <<"U", "9">>
T1 == <<"T", "1">>
T2 == <<"T", "2">>
T3 == <<"T", "3">>
C1 == <<"C", "1">>
C9 == <<"C", "9">>
SVC == <<"v", "o", "i", "c", "e">>
N1 == <<"1", "2", "3", "4">>
N2 == <<"3", "3", "3", "2">>
N3 == <<"7", "7">>
N9 == <<"9", "9">>
E1 == <<"a", "@", "y">>
E9 == <<"z", "@", "y">>
P1 == <<"p", "w", "1">>
P2 == <<"p", "w", "2">>

\* bcrypt: the stored hash of a password, and bcrypt.compare
Hash(p) == <<"$">> \o p
Compare(p, h) == h = Hash(p)

RoleId(n) == <<"R", Digit(n)>>
R9 == <<"R", "x">>

RoleName(n) ==
    CASE n = 1 -> <<"S", "u", "p", "e", "r", " ", "A", "d", "m", "i", "n">>
      [] n = 2 -> <<"K", "o", "o", "r", "d", "i", "n", "a", "t", "o", "r">>
      [] n = 3 -> <<"T", "e", "a", "m", " ", "L", "e", "a", "d", "e", "r">>
      [] n = 4 -> <<"A", "g", "e", "n", "t">>
      [] n = 5 -> <<"T", "e", "n", "a", "n", "t">>
      [] OTHER -> <<"O", "t", "h", "e", "r">>

----------------------------------------------------------------------------
(* The read-only stores.  The code never writes them. *)

RolesTable ==
    [n \in 1..MaxAccessLevel |->
        [id_role |-> RoleId(n), access_level |-> n, role_name |-> RoleName(n)]]

\* the user under study: every nullable column varies
SubjectUsers ==
    [id_user : {U1},
     full_name : {NULL, <<"A", "l">>},
     id_role : {NULL, R9} \cup {RoleId(n) : n \in 1..MaxAccessLevel},
     spv_id : {NULL, U1, U2, U9},
     id_tenant : {NULL, T1},
     nip : {N1},
     email : {E1},
     password : {Hash(P1)}]

\* a coordinator without a stored password, supervised by nobody
Coordinator ==
    [id_user |-> U2, full_name |-> <<"B", "o">>, id_role |-> RoleId(2),
     spv_id |-> NULL, id_tenant |-> T1, nip |-> N2, email |-> NULL,
     password |-> NULL]

\* a team lead whose full_name is the empty string
TeamLead ==
    [id_user |-> U3, full_name |-> EMPTY, id_role |-> RoleId(3),
     spv_id |-> U2, id_tenant |-> NULL, nip |-> N3, email |-> NULL,
     password |-> Hash(P1)]

SubjectMappings ==
    {<<>>}
    \cup {<<[id_user |-> U1, is_active |-> FALSE, id_category |-> C1, id_tenant |-> T2]>>}
    \cup {<<[id_user |-> U1, is_active |-> TRUE, id_category |-> c, id_tenant |-> t]>> :
            c \in {NULL, C1, C9}, t \in {NULL, T2}}

CategoryTables ==
    {<<[id_category |-> C1, is_active |-> TRUE, service |-> s, id_tenant |-> t]>> :
        s \in {NULL, SVC}, t \in {NULL, T3}}

UserTables == {<<u, Coordinator, TeamLead>> : u \in SubjectUsers}

\* prisma findFirst: the first row of the table that satisfies the filter
FirstOf(rows) == IF rows = <<>> THEN <<>> ELSE <<Head(rows)>>

\* findUserById that takes the row a login request in progress has matched
findUserById_requestRow(id) ==
    IF found # <<>> THEN found
    ELSE FirstOf(SelectSeq(users, LAMBDA r : r.id_user = id))

findUserById(id) == FirstOf(SelectSeq(users, LAMBDA r : r.id_user = id))

findRole(id) == FirstOf(SelectSeq(roles, LAMBDA r : r.id_role = id))

findActiveMapping(id) ==
    FirstOf(SelectSeq(mappings, LAMBDA r : r.id_user = id /\ r.is_active))

findActiveCategory(id) ==
    FirstOf(SelectSeq(categories, LAMBDA r : r.id_category = id /\ r.is_active))

----------------------------------------------------------------------------
(* getHierarchicalData, the optimized resolver of the login route. *)

\* m?.field of an optional row
OptTenant(m) == IF m = <<>> THEN NULL ELSE m[1].id_tenant
OptService(m) == IF m = <<>> THEN NULL ELSE m[1].service
OptCategoryId(m) == IF m = <<>> THEN NULL ELSE m[1].id_category
OptUserId(m) == IF m = <<>> THEN NULL ELSE m[1].id_user

Thrown(msg) == [called |-> TRUE, threw |-> TRUE, error |-> msg, data |-> <<>>]
Returned(d) == [called |-> TRUE, threw |-> FALSE, error |-> "", data |-> <<d>>]
NotCalled == [called |-> FALSE, threw |-> FALSE, error |-> "", data |-> <<>>]

\* user.id_role ? mst_role.findFirst(...) : null
fetchRole(user) ==
    IF Truthy(user.id_role) THEN findRole(user.id_role) ELSE <<>>

\* accessLevelOf that takes a user without a role row for an agent
accessLevelOf_defaultAgent(role) == IF role = <<>> THEN 4 ELSE role[1].access_level

\* role?.access_level ?? 0
accessLevelOf(role) == IF role = <<>> THEN 0 ELSE role[1].access_level

\* agentEarlyStop with the tenant taken from the user row
agentEarlyStop_withTenant(user, accessLevel) ==
    [fullName |-> user.full_name, tenantId |-> Coalesce(user.id_tenant, ZERO),
     service |-> ZERO, categoryId |-> ZERO, koordinatorId |-> ZERO,
     tlId |-> ZERO, agentId |-> user.id_user, accessLevel |-> accessLevel]

\* the early return for an agent
agentEarlyStop(user, accessLevel) ==
    [fullName |-> user.full_name, tenantId |-> ZERO, service |-> ZERO,
     categoryId |-> ZERO, koordinatorId |-> ZERO, tlId |-> ZERO,
     agentId |-> user.id_user, accessLevel |-> accessLevel]

\* mapping?.id_category ? mst_category_telephony.findFirst(...) : null
fetchCategory(mapping) ==
    IF mapping # <<>> /\ Truthy(mapping[1].id_category)
    THEN findActiveCategory(mapping[1].id_category)
    ELSE <<>>

\* user.spv_id ? mst_users.findFirst(...) : null
fetchSupervisor1(user) ==
    IF Truthy(user.spv_id) THEN findUserById(user.spv_id) ELSE <<>>

\* tenantIdOf without the final ?? "0"
tenantIdOf_noSentinel(mapping, category, user) ==
    Coalesce(OptTenant(mapping), Coalesce(OptTenant(category), user.id_tenant))

\* tenantIdOf that prefers the tenant of the category to the mapping's
tenantIdOf_categoryFirst(mapping, category, user) ==
    Coalesce(OptTenant(category),
        Coalesce(OptTenant(mapping), Coalesce(user.id_tenant, ZERO)))

\* mapping?.id_tenant ?? category?.id_tenant ?? user.id_tenant ?? "0"
tenantIdOf(mapping, category, user) ==
    Coalesce(OptTenant(mapping),
        Coalesce(OptTenant(category), Coalesce(user.id_tenant, ZERO)))

\* category?.service ?? "0"
serviceOf(category) == Coalesce(OptService(category), ZERO)

\* category?.id_category ?? "0"
categoryIdOf(category) == Coalesce(OptCategoryId(category), ZERO)

\* positionOf with the two ids of case 3 exchanged
positionOf_case3Swapped(accessLevel, user, supervisor1) ==
    CASE accessLevel = 3 ->
            [koordinatorId |-> user.id_user,
             tlId |-> Coalesce(OptUserId(supervisor1), ZERO), agentId |-> ZERO]
      [] accessLevel = 2 ->
            [koordinatorId |-> user.id_user, tlId |-> ZERO, agentId |-> ZERO]
      [] OTHER ->
            [koordinatorId |-> ZERO, tlId |-> ZERO, agentId |-> ZERO]

\* positionOf with case 2 missing its break, so that it also names a
\* supervisor as team lead
positionOf_case2Walks(accessLevel, user, supervisor1) ==
    CASE accessLevel = 3 ->
            [koordinatorId |-> Coalesce(OptUserId(supervisor1), ZERO),
             tlId |-> user.id_user, agentId |-> ZERO]
      [] accessLevel = 2 ->
            [koordinatorId |-> user.id_user,
             tlId |-> Coalesce(OptUserId(supervisor1), ZERO), agentId |-> ZERO]
      [] OTHER ->
            [koordinatorId |-> ZERO, tlId |-> ZERO, agentId |-> ZERO]

\* the switch on accessLevel: who sits in which position
positionOf(accessLevel, user, supervisor1) ==
    CASE accessLevel = 3 ->
            [koordinatorId |-> Coalesce(OptUserId(supervisor1), ZERO),
             tlId |-> user.id_user, agentId |-> ZERO]
      [] accessLevel = 2 ->
            [koordinatorId |-> user.id_user, tlId |-> ZERO, agentId |-> ZERO]
      [] OTHER ->
            [koordinatorId |-> ZERO, tlId |-> ZERO, agentId |-> ZERO]

\* the part of the resolver that only runs for a non-agent
nonAgentResult(user, accessLevel) ==
    LET mapping == findActiveMapping(user.id_user)
        category == fetchCategory(mapping)
        supervisor1 == fetchSupervisor1(user)
        pos == positionOf(accessLevel, user, supervisor1)
    IN  [fullName |-> user.full_name,
         tenantId |-> tenantIdOf(mapping, category, user),
         service |-> serviceOf(category),
         categoryId |-> categoryIdOf(category),
         koordinatorId |-> pos.koordinatorId,
         tlId |-> pos.tlId,
         agentId |-> pos.agentId,
         accessLevel |-> accessLevel]

\* the two throws that follow the base user lookup
baseUserError(user) ==
    IF user = <<>> THEN "User not found"
    ELSE IF ~Truthy(user[1].full_name) THEN "User full_name is null"
    ELSE ""

getHierarchicalData(userId) ==
    LET user == findUserById(userId)
        err == baseUserError(user)
    IN  IF err # "" THEN Thrown(err)
        ELSE LET accessLevel == accessLevelOf(fetchRole(user[1]))
             IN  IF accessLevel = 4
                 THEN Returned(agentEarlyStop(user[1], accessLevel))
                 ELSE Returned(nonAgentResult(user[1], accessLevel))

----------------------------------------------------------------------------
(* The resolver called on its own; the login handler stays idle. *)

NoResponse ==
    [http |-> 0, status |-> "", message |-> "", ID |-> NULL, Fullname |-> NULL,
     Role |-> NULL, AccessLevel |-> <<>>, hierarchical_data |-> NULL]

NoBody == [ok |-> TRUE, nip |-> NULL, email |-> NULL, password |-> NULL]

\* a level of a guest-token request is a JSON number or a JSON string
\* (NULL: the field is missing)
NumLevel(n) == [isNum |-> TRUE, n |-> n, s |-> NULL]
StrLevel(s) == [isNum |-> FALSE, n |-> 0, s |-> s]

NoGuestRequest ==
    [method |-> "", ok |-> TRUE, username |-> NULL, level |-> StrLevel(NULL)]

NoGuestResponse == [http |-> 0, error |-> "", token |-> NULL, dashboardId |-> NULL]

\* the names of databaseConfig, and the names callers ask for
DatabaseNames == {"telephony_account", "telephony_master"}
AskedNames == DatabaseNames \cup {"invalid_database"}

\* an empty instances map, and no call made yet
NoInstances == [n \in AskedNames |-> 0]
NoCall == [op |-> "", name |-> "", threw |-> FALSE, client |-> 0]

\* the initial state of the auth store
InitialStore ==
    [guestToken |-> NULL, dashboardId |-> NULL, fullName |-> NULL, userId |-> NULL,
     userRole |-> NULL, accessLevel |-> <<>>, hierarchicalData |-> NULL,
     isRehydrated |-> FALSE]

\* the login page as it is first rendered; no guest-token request sent
NoGuestCall == [sent |-> FALSE, username |-> NULL, level |-> <<>>]
LoginPage ==
    [route |-> "/", step |-> "form", loading |-> FALSE, message |-> "",
     data |-> NoResponse, request |-> NoGuestCall, event |-> "",
     hydration |-> "pending", due |-> FALSE, checking |-> TRUE, mount |-> 0,
     pending |-> FALSE, embeds |-> 0]

NoMemo == [made |-> FALSE, again |-> FALSE, id |-> NULL, result |-> NotCalled]

\* no resolution in progress and no lookup made
ZeroLookups == [role |-> 0, mapping |-> 0, category |-> 0, supervisor |-> 0]
NoWalk ==
    [variant |-> "", pc |-> "idle", id |-> NULL, user |-> <<>>, level |-> 0,
     mapping |-> <<>>, hop |-> <<>>, n |-> ZeroLookups]

\* the memo after userId was resolved as result: the first resolution is
\* kept, a later one of the same user id is noted
Remember(userId, result) ==
    IF ~memo.made
    THEN [made |-> TRUE, again |-> FALSE, id |-> userId, result |-> result]
    ELSE IF userId = memo.id THEN [memo EXCEPT !.again = TRUE]
    ELSE memo

\* the stores as some deployment holds them; nothing has been called yet
InitResolver ==
    /\ users \in UserTables
    /\ roles = RolesTable
    /\ mappings \in SubjectMappings
    /\ categories \in CategoryTables
    /\ hfor = NULL
    /\ hres = NotCalled
    /\ pc = "idle"
    /\ body = NoBody
    /\ found = <<>>
    /\ log = <<>>
    /\ resp = NoResponse
    /\ refreshTokenStore = NULL
    /\ gpc = "idle"
    /\ greq = NoGuestRequest
    /\ dashboardId = NULL
    /\ accessToken = NULL
    /\ csrfToken = NULL
    /\ glog = <<>>
    /\ gresp = NoGuestResponse
    /\ env = DatabaseNames
    /\ connectionUrls = DatabaseNames
    /\ instances = NoInstances
    /\ clients = <<>>
    /\ dcall = NoCall
    /\ dpc = "idle"
    /\ asked = {}
    /\ authStore = InitialStore
    /\ page = LoginPage
    /\ ffor = NULL
    /\ fres = NotCalled
    /\ memo = NoMemo
    /\ walk = NoWalk

\* user ids a caller may ask about; U9 names no row
AskedIds == {U1, U2, U3, U9}

\* a direct call of the resolver, as the test scripts make
ResolveCall(userId) ==
    /\ hfor' = userId
    /\ hres' = getHierarchicalData(userId)
    /\ memo' = Remember(userId, getHierarchicalData(userId))
    /\ UNCHANGED <<dbvars, managervars, clientvars, fallbackvars, loginvars, guestvars>>

NextResolver == \E userId \in AskedIds : ResolveCall(userId)

SpecResolver == InitResolver /\ [][NextResolver]_vars

----------------------------------------------------------------------------
(* formatHierarchy, and String.split as the test script applies it. *)

\* ${x} in a template literal
Str(x) == IF x = NULL THEN <<"n", "u", "l", "l">> ELSE x

formatHierarchy(data) ==
    Str(data.fullName) \o SEP \o Str(data.tenantId) \o SEP \o Str(data.service)
        \o SEP \o Str(data.categoryId) \o SEP \o Str(data.koordinatorId)
        \o SEP \o Str(data.tlId) \o SEP \o Str(data.agentId)

\* the positions at which sep occurs in s
Occurrences(s, sep) ==
    {i \in 1..(Len(s) - Len(sep) + 1) : SubSeq(s, i, i + Len(sep) - 1) = sep}

\* s.split(sep) for a non-empty separator
RECURSIVE Split(_, _)
Split(s, sep) ==
    IF Occurrences(s, sep) = {} THEN <<s>>
    ELSE LET i == CHOOSE k \in Occurrences(s, sep) :
                      \A j \in Occurrences(s, sep) : k <= j
         IN  <<SubSeq(s, 1, i - 1)>> \o Split(SubSeq(s, i + Len(sep), Len(s)), sep)

----------------------------------------------------------------------------
(* POST of the login route, one action per await. *)

\* request bodies: identifier pairs <<nip, email>> and passwords
Identifiers ==
    {<<NULL, NULL>>, <<EMPTY, EMPTY>>, <<N1, NULL>>, <<N2, NULL>>, <<N3, NULL>>,
     <<N9, NULL>>, <<NULL, E1>>, <<NULL, E9>>, <<N9, E1>>}

Passwords == {NULL, EMPTY, P1, P2}

Bodies ==
    {[ok |-> TRUE, nip |-> id[1], email |-> id[2], password |-> pw] :
        id \in Identifiers, pw \in Passwords}
    \cup {[ok |-> FALSE, nip |-> NULL, email |-> NULL, password |-> NULL]}

Failure(http, message) ==
    [NoResponse EXCEPT !.http = http, !.status = "F", !.message = message]

\* the error of a query the database rejects
QueryRejected == "Can't reach database server"

\* InternalError that sends the message of the error it caught
InternalError_leaks == Failure(500, QueryRejected)

\* the catch block
InternalError == Failure(500, "Internal server error")

\* validateBody with the password checked before the identifier
validateBody_passwordFirst(b) ==
    IF ~Truthy(b.password)
    THEN <<Failure(400, "Password wajib diisi")>>
    ELSE IF ~Truthy(b.nip) /\ ~Truthy(b.email)
    THEN <<Failure(400, "NIP atau Email wajib diisi")>>
    ELSE <<>>

\* the validation of the body: the response it ends with, or none
validateBody(b) ==
    IF ~Truthy(b.nip) /\ ~Truthy(b.email)
    THEN <<Failure(400, "NIP atau Email wajib diisi")>>
    ELSE IF ~Truthy(b.password)
    THEN <<Failure(400, "Password wajib diisi")>>
    ELSE <<>>

\* findUserByLogin that tries the email when the nip matches no row
findUserByLogin_emailFallback(b) ==
    LET byNip == FirstOf(SelectSeq(users, LAMBDA r : r.nip = b.nip))
        byEmail == FirstOf(SelectSeq(users, LAMBDA r : r.email = b.email))
    IN  IF Truthy(b.nip) /\ byNip # <<>> THEN byNip ELSE byEmail

\* mst_users.findFirst({ where: nip ? { nip } : { email } })
findUserByLogin(b) ==
    IF Truthy(b.nip)
    THEN FirstOf(SelectSeq(users, LAMBDA r : r.nip = b.nip))
    ELSE FirstOf(SelectSeq(users, LAMBDA r : r.email = b.email))

\* the responses of the three credential failures
userNotFound == Failure(404, "User tidak ditemukan")
noStoredPassword == Failure(400, "User tidak memiliki password terdaftar")

\* wrongPassword answered as an authorization failure
wrongPassword_401 == Failure(401, "Password salah!")

wrongPassword == Failure(417, "Password salah!")

\* the two success responses
successResponse(user, h) ==
    [http |-> 200, status |-> "T", message |-> "Success", ID |-> user.id_user,
     Fullname |-> user.full_name, Role |-> user.id_role,
     AccessLevel |-> <<h.accessLevel>>,
     hierarchical_data |-> IF h.accessLevel = 4 THEN NULL ELSE formatHierarchy(h)]

\* req.json(), the two validations, and the issue of the user lookup
PostReceive(b) ==
    /\ pc \in {"idle", "done"}
    /\ body' = b
    /\ found' = <<>>
    /\ IF ~b.ok
       THEN /\ pc' = "done"
            /\ resp' = InternalError
            /\ log' = <<>>
       ELSE IF validateBody(b) # <<>>
       THEN /\ pc' = "done"
            /\ resp' = validateBody(b)[1]
            /\ log' = <<>>
       ELSE /\ pc' = "lookup"
            /\ resp' = NoResponse
            /\ log' = <<"getClient", "findUser">>
    /\ hfor' = NULL
    /\ hres' = NotCalled
    /\ UNCHANGED <<dbvars, managervars, clientvars, fallbackvars, memo, guestvars>>

\* the lookup answers: the query rejects (caught), not found, no stored
\* password, or on to bcrypt
PostLookup(rejects) ==
    /\ pc = "lookup"
    /\ LET user == IF rejects THEN <<>> ELSE findUserByLogin(body)
       IN  /\ found' = user
           /\ IF rejects
              THEN /\ pc' = "done"
                   /\ resp' = InternalError
                   /\ log' = Append(log, "rejected")
              ELSE IF user = <<>>
              THEN /\ pc' = "done"
                   /\ resp' = userNotFound
                   /\ log' = log
              ELSE IF ~Truthy(user[1].password)
              THEN /\ pc' = "done"
                   /\ resp' = noStoredPassword
                   /\ log' = log
              ELSE /\ pc' = "compare"
                   /\ resp' = resp
                   /\ log' = Append(log, "compare")
    /\ UNCHANGED <<dbvars, managervars, clientvars, fallbackvars, memo, resolvervars, body, guestvars>>

\* bcrypt.compare answers: wrong password, or on to the resolver
PostCompare ==
    /\ pc = "compare"
    /\ IF ~Compare(body.password, found[1].password)
       THEN /\ pc' = "done"
            /\ resp' = wrongPassword
            /\ log' = log
       ELSE /\ pc' = "resolve"
            /\ resp' = resp
            /\ log' = Append(log, "resolve")
    /\ UNCHANGED <<dbvars, managervars, clientvars, fallbackvars, memo, resolvervars, body, found, guestvars>>

\* the resolver answers: its exception, or the rejection of one of its
\* queries, is caught; its result is sent
PostResolve(rejects) ==
    /\ pc = "resolve"
    /\ LET h == IF rejects THEN Thrown(QueryRejected)
                ELSE getHierarchicalData(found[1].id_user)
       IN  /\ hres' = h
           /\ hfor' = found[1].id_user
           /\ resp' = IF h.threw THEN InternalError
                      ELSE successResponse(found[1], h.data[1])
    /\ log' = IF rejects THEN Append(log, "rejected") ELSE log
    /\ pc' = "done"
    /\ memo' = IF rejects THEN memo
               ELSE Remember(found[1].id_user, getHierarchicalData(found[1].id_user))
    /\ UNCHANGED <<dbvars, managervars, clientvars, fallbackvars, body, found, guestvars>>

\* the stores the login requests run against: the subject user with or
\* without a supervisor, with or without an active mapping
LoginUserTables ==
    {<<u, Coordinator, TeamLead>> : u \in {v \in SubjectUsers : v.spv_id \in {NULL, U2}}}

LoginMappings ==
    {<<>>, <<[id_user |-> U1, is_active |-> TRUE, id_category |-> C1, id_tenant |-> T2]>>}

LoginCategories ==
    {<<[id_category |-> C1, is_active |-> TRUE, service |-> SVC, id_tenant |-> T3]>>}

Init ==
    /\ users \in LoginUserTables
    /\ roles = RolesTable
    /\ mappings \in LoginMappings
    /\ categories \in LoginCategories
    /\ hfor = NULL
    /\ hres = NotCalled
    /\ pc = "idle"
    /\ body = NoBody
    /\ found = <<>>
    /\ log = <<>>
    /\ resp = NoResponse
    /\ refreshTokenStore = NULL
    /\ gpc = "idle"
    /\ greq = NoGuestRequest
    /\ dashboardId = NULL
    /\ accessToken = NULL
    /\ csrfToken = NULL
    /\ glog = <<>>
    /\ gresp = NoGuestResponse
    /\ env = DatabaseNames
    /\ connectionUrls = DatabaseNames
    /\ instances = NoInstances
    /\ clients = <<>>
    /\ dcall = NoCall
    /\ dpc = "idle"
    /\ asked = {}
    /\ authStore = InitialStore
    /\ page = LoginPage
    /\ ffor = NULL
    /\ fres = NotCalled
    /\ memo = NoMemo
    /\ walk = NoWalk

Next ==
    \/ \E b \in Bodies : PostReceive(b)
    \/ \E rejects \in BOOLEAN : PostLookup(rejects)
    \/ PostCompare
    \/ \E rejects \in BOOLEAN : PostResolve(rejects)

Spec == Init /\ [][Next]_vars

----------------------------------------------------------------------------
(* POST of the password-validation route: the same validations and lookup, *)
(* then bcrypt.compare against the stored hash or, without one, "".        *)

validationSuccess ==
    [NoResponse EXCEPT !.http = 200, !.status = "T", !.message = "Berhasil"]

\* the whole handler; rejects: the lookup is rejected by the database
PasswordValidationPost(b, rejects) ==
    LET user == IF rejects THEN <<>> ELSE findUserByLogin(b)
        answered == validateBody(b) = <<>> /\ ~rejects
    IN  /\ body' = b
        /\ pc' = "done"
        /\ found' = IF b.ok /\ answered THEN user ELSE <<>>
        /\ resp' = IF ~b.ok THEN InternalError
                   ELSE IF validateBody(b) # <<>> THEN validateBody(b)[1]
                   ELSE IF rejects THEN InternalError
                   ELSE IF user = <<>> THEN userNotFound
                   ELSE IF Compare(b.password, Coalesce(user[1].password, EMPTY))
                   THEN validationSuccess
                   ELSE wrongPassword
        /\ log' = IF ~b.ok \/ validateBody(b) # <<>> THEN <<>>
                  ELSE IF rejects THEN <<"getClient", "findUser", "rejected">>
                  ELSE IF user = <<>> THEN <<"getClient", "findUser">>
                  ELSE <<"getClient", "findUser", "compare">>
        /\ UNCHANGED <<dbvars, managervars, clientvars, fallbackvars, memo, resolvervars, guestvars>>

InitValidation ==
    /\ users \in LoginUserTables
    /\ roles = RolesTable
    /\ mappings \in LoginMappings
    /\ categories \in LoginCategories
    /\ hfor = NULL
    /\ hres = NotCalled
    /\ pc = "idle"
    /\ body = NoBody
    /\ found = <<>>
    /\ log = <<>>
    /\ resp = NoResponse
    /\ refreshTokenStore = NULL
    /\ gpc = "idle"
    /\ greq = NoGuestRequest
    /\ dashboardId = NULL
    /\ accessToken = NULL
    /\ csrfToken = NULL
    /\ glog = <<>>
    /\ gresp = NoGuestResponse
    /\ env = DatabaseNames
    /\ connectionUrls = DatabaseNames
    /\ instances = NoInstances
    /\ clients = <<>>
    /\ dcall = NoCall
    /\ dpc = "idle"
    /\ asked = {}
    /\ authStore = InitialStore
    /\ page = LoginPage
    /\ ffor = NULL
    /\ fres = NotCalled
    /\ memo = NoMemo
    /\ walk = NoWalk

NextValidation ==
    \E b \in Bodies, rejects \in BOOLEAN : PasswordValidationPost(b, rejects)

SpecValidation == InitValidation /\ [][NextValidation]_vars

----------------------------------------------------------------------------
(* The guest-token route: POST with the stored refresh token, and the     *)
(* older GET handler.  One action per await of a Superset request.        *)

\* the highest key of the dashboards table
TableMaxLevel == 5

\* numeric levels 0..MaxRequestedLevel are requested, as numbers and as strings
MaxRequestedLevel == 9

ADMIN == <<"d", "A">>
KOOR == <<"d", "K">>
TL == <<"d", "L">>
AGENT == <<"d", "G">>
TENANT == <<"d", "T">>

\* the environment's dashboard ids, all configured
dashboards ==
    [n \in 0..TableMaxLevel |->
        CASE n = 0 -> ADMIN
          [] n = 1 -> ADMIN
          [] n = 2 -> KOOR
          [] n = 3 -> TL
          [] n = 4 -> AGENT
          [] OTHER -> TENANT]

CONSTRUCTOR == <<"c", "o", "n", "s", "t", "r", "u", "c", "t", "o", "r">>
TOSTRING == <<"t", "o", "S", "t", "r", "i", "n", "g">>

\* names every object literal inherits from Object.prototype
ObjectPrototypeKeys == {CONSTRUCTOR, TOSTRING}

\* what an inherited name evaluates to: a function, no dashboard id
INHERITED == <<"<function>">>

\* String(level)
LevelKey(level) == IF level.isNum THEN NumText(level.n) ELSE level.s

\* dashboards[key]: an own key, an inherited name, or undefined
lookupDashboards(key) ==
    IF \E n \in 0..TableMaxLevel : NumText(n) = key
    THEN dashboards[CHOOSE n \in 0..TableMaxLevel : NumText(n) = key]
    ELSE IF key \in ObjectPrototypeKeys THEN INHERITED
    ELSE NULL

\* dashboards[String(level)] ?? dashboards["0"]
selectDashboard(key) == Coalesce(lookupDashboards(key), lookupDashboards(ZERO))

USER == <<"u">>

RequestedLevels ==
    {NumLevel(n) : n \in 0..MaxRequestedLevel}
    \cup {StrLevel(NumText(n)) : n \in 0..MaxRequestedLevel}
    \cup {StrLevel(NULL), StrLevel(EMPTY), StrLevel(CONSTRUCTOR), StrLevel(TOSTRING)}

\* POST bodies; the last one does not parse
GuestBodies ==
    {[method |-> "POST", ok |-> TRUE, username |-> u, level |-> l] :
        u \in {NULL, USER}, l \in RequestedLevels}
    \cup {[method |-> "POST", ok |-> FALSE, username |-> NULL, level |-> StrLevel(NULL)]}

\* GET queries: searchParams.get gives a string or null
GuestQueries ==
    {[method |-> "GET", ok |-> TRUE, username |-> u, level |-> l] :
        u \in {NULL, USER}, l \in {x \in RequestedLevels : ~x.isNum}}

GuestError(http, error) ==
    [http |-> http, error |-> error, token |-> NULL, dashboardId |-> NULL]

\* the catch block of both handlers
GuestFailed == GuestError(500, "Failed to generate guest token")

\* !username || level === undefined || level === null
postInvalid(b) == ~Truthy(b.username) \/ (~b.level.isNum /\ b.level.s = NULL)

\* !username || !level
getInvalid(q) == ~Truthy(q.username) \/ ~Truthy(q.level.s)

\* answers of Superset: a failure (network error, unparsable body, or for
\* login and refresh a status that is not ok), or the fields of the body
AT == <<"a", "t">>
RT == <<"r", "t">>
CSRF == <<"c", "s">>
GT == <<"g", "t">>

RefreshAnswers == {[ok |-> o, access_token |-> a] : o \in BOOLEAN, a \in {NULL, AT}}

LoginAnswers ==
    {[ok |-> o, access_token |-> a, refresh_token |-> r] :
        o \in BOOLEAN, a \in {NULL, AT}, r \in {NULL, RT}}

CsrfAnswers == {[ok |-> o, result |-> c] : o \in BOOLEAN, c \in {NULL, CSRF}}

GuestAnswers == {[ok |-> o, token |-> t] : o \in BOOLEAN, t \in {NULL, GT}}

\* POST: parse, validate, select the dashboard, enter getValidAccessToken
GuestPost(b) ==
    /\ gpc \in {"idle", "done"}
    /\ greq' = b
    /\ accessToken' = NULL
    /\ csrfToken' = NULL
    /\ IF ~b.ok
       THEN /\ gpc' = "done"
            /\ gresp' = GuestFailed
            /\ dashboardId' = NULL
            /\ glog' = <<>>
       ELSE IF postInvalid(b)
       THEN /\ gpc' = "done"
            /\ gresp' = GuestError(400, "username and level are required")
            /\ dashboardId' = NULL
            /\ glog' = <<>>
       ELSE /\ dashboardId' = selectDashboard(LevelKey(b.level))
            /\ gresp' = NoGuestResponse
            /\ IF Truthy(refreshTokenStore)
               THEN gpc' = "refresh" /\ glog' = <<"refresh">>
               ELSE gpc' = "adminLogin" /\ glog' = <<"login">>
    /\ UNCHANGED <<dbvars, managervars, clientvars, fallbackvars, memo, resolvervars, loginvars, refreshTokenStore>>

\* GET: validate, select the dashboard, send the login
GuestGet(q) ==
    /\ gpc \in {"idle", "done"}
    /\ greq' = q
    /\ accessToken' = NULL
    /\ csrfToken' = NULL
    /\ IF getInvalid(q)
       THEN /\ gpc' = "done"
            /\ gresp' = GuestError(400, "username and level are required")
            /\ dashboardId' = NULL
            /\ glog' = <<>>
       ELSE /\ dashboardId' = selectDashboard(q.level.s)
            /\ gresp' = NoGuestResponse
            /\ gpc' = "getLogin"
            /\ glog' = <<"login">>
    /\ UNCHANGED <<dbvars, managervars, clientvars, fallbackvars, memo, resolvervars, loginvars, refreshTokenStore>>

\* refreshAccessToken answers: a failure falls through to the fresh login,
\* a success returns refreshData.access_token as it is
RefreshAnswer(a) ==
    /\ gpc = "refresh"
    /\ IF ~a.ok
       THEN /\ gpc' = "adminLogin"
            /\ accessToken' = accessToken
       ELSE /\ gpc' = "login2"
            /\ accessToken' = a.access_token
    /\ glog' = Append(glog, "login")
    /\ UNCHANGED <<dbvars, managervars, clientvars, fallbackvars, memo, resolvervars, loginvars, refreshTokenStore, greq,
                   dashboardId, csrfToken, gresp>>

\* the fresh login of getValidAccessToken answers
AdminLoginAnswer(a) ==
    /\ gpc = "adminLogin"
    /\ IF ~a.ok \/ ~Truthy(a.access_token)
       THEN /\ gpc' = "done"
            /\ gresp' = GuestFailed
            /\ UNCHANGED <<accessToken, refreshTokenStore, glog>>
       ELSE /\ gpc' = "login2"
            /\ accessToken' = a.access_token
            /\ refreshTokenStore' =
                   IF Truthy(a.refresh_token) THEN a.refresh_token
                   ELSE refreshTokenStore
            /\ glog' = Append(glog, "login")
            /\ gresp' = gresp
    /\ UNCHANGED <<dbvars, managervars, clientvars, fallbackvars, memo, resolvervars, loginvars, greq, dashboardId, csrfToken>>

\* the handler's own login answers; only its cookies are used
SecondLoginAnswer(failed) ==
    /\ gpc = "login2"
    /\ IF failed
       THEN /\ gpc' = "done"
            /\ gresp' = GuestFailed
            /\ glog' = glog
       ELSE /\ gpc' = "csrf"
            /\ gresp' = gresp
            /\ glog' = Append(glog, "csrf")
    /\ UNCHANGED <<dbvars, managervars, clientvars, fallbackvars, memo, resolvervars, loginvars, refreshTokenStore, greq,
                   dashboardId, accessToken, csrfToken>>

\* the login of the GET handler answers
GetLoginAnswer(a) ==
    /\ gpc = "getLogin"
    /\ IF ~a.ok
       THEN /\ gpc' = "done"
            /\ gresp' = GuestFailed
            /\ UNCHANGED <<accessToken, glog>>
       ELSE IF ~Truthy(a.access_token)
       THEN /\ gpc' = "done"
            /\ gresp' = GuestError(500, "Superset login failed")
            /\ UNCHANGED <<accessToken, glog>>
       ELSE /\ gpc' = "csrf"
            /\ accessToken' = a.access_token
            /\ glog' = Append(glog, "csrf")
            /\ gresp' = gresp
    /\ UNCHANGED <<dbvars, managervars, clientvars, fallbackvars, memo, resolvervars, loginvars, refreshTokenStore, greq,
                   dashboardId, csrfToken>>

\* csrf_token answers
CsrfAnswer(a) ==
    /\ gpc = "csrf"
    /\ IF ~a.ok
       THEN /\ gpc' = "done"
            /\ gresp' = GuestFailed
            /\ UNCHANGED <<csrfToken, glog>>
       ELSE IF ~Truthy(a.result)
       THEN /\ gpc' = "done"
            /\ gresp' = GuestError(500, "Failed to get CSRF token")
            /\ UNCHANGED <<csrfToken, glog>>
       ELSE /\ gpc' = "guest"
            /\ csrfToken' = a.result
            /\ glog' = Append(glog, "guest_token")
            /\ gresp' = gresp
    /\ UNCHANGED <<dbvars, managervars, clientvars, fallbackvars, memo, resolvervars, loginvars, refreshTokenStore, greq,
                   dashboardId, accessToken>>

\* guest_token answers: its token and the selected dashboard are sent
GuestAnswer(a) ==
    /\ gpc = "guest"
    /\ gpc' = "done"
    /\ gresp' = IF ~a.ok THEN GuestFailed
                ELSE [http |-> 200, error |-> "", token |-> a.token,
                      dashboardId |-> dashboardId]
    /\ UNCHANGED <<dbvars, managervars, clientvars, fallbackvars, memo, resolvervars, loginvars, refreshTokenStore, greq,
                   dashboardId, accessToken, csrfToken, glog>>

InitGuest ==
    /\ users = <<Coordinator>>
    /\ roles = RolesTable
    /\ mappings = <<>>
    /\ categories = <<>>
    /\ hfor = NULL
    /\ hres = NotCalled
    /\ pc = "idle"
    /\ body = NoBody
    /\ found = <<>>
    /\ log = <<>>
    /\ resp = NoResponse
    /\ refreshTokenStore = NULL
    /\ gpc = "idle"
    /\ greq = NoGuestRequest
    /\ dashboardId = NULL
    /\ accessToken = NULL
    /\ csrfToken = NULL
    /\ glog = <<>>
    /\ gresp = NoGuestResponse
    /\ env = DatabaseNames
    /\ connectionUrls = DatabaseNames
    /\ instances = NoInstances
    /\ clients = <<>>
    /\ dcall = NoCall
    /\ dpc = "idle"
    /\ asked = {}
    /\ authStore = InitialStore
    /\ page = LoginPage
    /\ ffor = NULL
    /\ fres = NotCalled
    /\ memo = NoMemo
    /\ walk = NoWalk

NextGuest ==
    \/ \E b \in GuestBodies : GuestPost(b)
    \/ \E q \in GuestQueries : GuestGet(q)
    \/ \E a \in RefreshAnswers : RefreshAnswer(a)
    \/ \E a \in LoginAnswers : AdminLoginAnswer(a)
    \/ \E failed \in BOOLEAN : SecondLoginAnswer(failed)
    \/ \E a \in LoginAnswers : GetLoginAnswer(a)
    \/ \E a \in CsrfAnswers : CsrfAnswer(a)
    \/ \E a \in GuestAnswers : GuestAnswer(a)

SpecGuest == InitGuest /\ [][NextGuest]_vars

----------------------------------------------------------------------------
(* What the claims about the resolver speak of, read off the stores. *)

IsUser(id) == \E i \in DOMAIN users : users[i].id_user = id

RowOf(id) == users[CHOOSE i \in DOMAIN users : users[i].id_user = id]

\* the access level of the user's role; 0 when the user has no role row
LevelOf(id) ==
    LET hit == {j \in DOMAIN roles : roles[j].id_role = RowOf(id).id_role}
    IN  IF hit = {} THEN 0 ELSE roles[CHOOSE j \in hit : TRUE].access_level

HasName(id) == RowOf(id).full_name \notin {NULL, EMPTY}

ActiveMappingsOf(id) ==
    {i \in DOMAIN mappings : mappings[i].id_user = id /\ mappings[i].is_active}

\* the active categories an active mapping of the user points to
CategoriesOf(id) ==
    {k \in DOMAIN categories :
        /\ categories[k].is_active
        /\ \E i \in ActiveMappingsOf(id) :
               mappings[i].id_category = categories[k].id_category}

\* the resolver returned a result for an existing user
ResolvedFor(id) == hres.called /\ ~hres.threw /\ hfor = id /\ IsUser(id)

Result == hres.data[1]

\* C1: whenever the optimized resolver returns a result for a user whose
\* role has access level 4, agentId is the user's own id and tenantId,
\* service, categoryId, koordinatorId and tlId are all "0", whatever mapping,
\* category or supervisor rows exist for that user.
C1_AgentFastPath ==
    \A id \in AskedIds :
        (ResolvedFor(id) /\ LevelOf(id) = 4) =>
            /\ Result.agentId = id
            /\ Result.tenantId = ZERO
            /\ Result.service = ZERO
            /\ Result.categoryId = ZERO
            /\ Result.koordinatorId = ZERO
            /\ Result.tlId = ZERO

\* an agent with a tenant, an active mapping to an existing category with a
\* tenant and a service, and an existing supervisor has been resolved
C1_Witness ==
    /\ ResolvedFor(U1)
    /\ LevelOf(U1) = 4
    /\ RowOf(U1).id_tenant = T1
    /\ RowOf(U1).spv_id = U2
    /\ \E i \in ActiveMappingsOf(U1) : mappings[i].id_tenant = T2
    /\ \E k \in CategoriesOf(U1) :
           categories[k].service = SVC /\ categories[k].id_tenant = T3

\* C2: whenever the resolver returns a result for a user of access level 3
\* whose spv_id names an existing user, tlId is the user's own id,
\* koordinatorId is that supervisor's id and agentId is "0".
C2_TeamLeadSupervisor ==
    \A id \in AskedIds :
        (ResolvedFor(id) /\ LevelOf(id) = 3 /\ IsUser(RowOf(id).spv_id)) =>
            /\ Result.tlId = id
            /\ Result.koordinatorId = RowOf(id).spv_id
            /\ Result.agentId = ZERO

\* a team lead supervised by another existing user has been resolved
C2_Witness ==
    /\ ResolvedFor(U1)
    /\ LevelOf(U1) = 3
    /\ RowOf(U1).spv_id = U2
    /\ Result.koordinatorId = U2

\* C3: whenever the resolver returns a result for a user of access level 2,
\* koordinatorId is the user's own id and tlId and agentId are "0", also
\* when the user has a supervisor that exists.
C3_CoordinatorSelf ==
    \A id \in AskedIds :
        (ResolvedFor(id) /\ LevelOf(id) = 2) =>
            /\ Result.koordinatorId = id
            /\ Result.tlId = ZERO
            /\ Result.agentId = ZERO

\* a coordinator whose spv_id names an existing other user has been resolved
C3_Witness ==
    /\ ResolvedFor(U1)
    /\ LevelOf(U1) = 2
    /\ RowOf(U1).spv_id = U2
    /\ IsUser(U2)

\* every field of a returned result holds a value, none is null
Complete(d) ==
    /\ d.fullName # NULL
    /\ d.tenantId # NULL
    /\ d.service # NULL
    /\ d.categoryId # NULL
    /\ d.koordinatorId # NULL
    /\ d.tlId # NULL
    /\ d.agentId # NULL
    /\ d.accessLevel \in Nat

\* a field whose source row or column is missing holds the sentinel "0"
UnresolvedAreZero(id, d) ==
    /\ (RowOf(id).id_role = NULL \/ ~\E j \in DOMAIN roles :
            roles[j].id_role = RowOf(id).id_role)
        => /\ d.accessLevel = 0
           /\ d.koordinatorId = ZERO /\ d.tlId = ZERO /\ d.agentId = ZERO
    /\ (ActiveMappingsOf(id) = {} /\ RowOf(id).id_tenant = NULL)
        => d.tenantId = ZERO
    /\ CategoriesOf(id) = {}
        => d.service = ZERO /\ d.categoryId = ZERO
    /\ (\A k \in CategoriesOf(id) : categories[k].service = NULL)
        => d.service = ZERO
    /\ ((\A i \in ActiveMappingsOf(id) : mappings[i].id_tenant = NULL)
            /\ (\A k \in CategoriesOf(id) : categories[k].id_tenant = NULL)
            /\ RowOf(id).id_tenant = NULL)
        => d.tenantId = ZERO
    /\ ~IsUser(RowOf(id).spv_id) => d.koordinatorId \in {ZERO, id}
    /\ d.tlId \in {ZERO, id}
    /\ d.agentId \in {ZERO, id}

----------------------------------------------------------------------------
(* What the claims about the login endpoint speak of. *)

Present(x) == x \notin {NULL, EMPTY}

\* the request in progress carries an identifier and a password
ValidBody == body.ok /\ (Present(body.nip) \/ Present(body.email)) /\ Present(body.password)

\* the rows the submitted identifier names: by nip when a nip was sent,
\* by email otherwise
LoginMatches ==
    {i \in DOMAIN users :
        IF Present(body.nip) THEN users[i].nip = body.nip
        ELSE users[i].email = body.email}

\* the row the lookup returns: the first one in table order
MatchedRow == users[CHOOSE i \in LoginMatches : \A j \in LoginMatches : i <= j]

Answered(http, status, message) ==
    /\ pc = "done"
    /\ resp.http = http
    /\ resp.status = status
    /\ resp.message = message

InLog(e) == \E i \in DOMAIN log : log[i] = e

\* every query of the request in progress was answered by the database
QueriesAnswered == ~InLog("rejected")

\* C4 as stated: a hierarchical_data string of a login response splits on
\* " - " into exactly six fields, none of them empty.
C4_SixFields ==
    (pc = "done" /\ resp.hierarchical_data # NULL) =>
        LET parts == Split(resp.hierarchical_data, SEP)
        IN  /\ Len(parts) = 6
            /\ \A i \in DOMAIN parts : parts[i] # EMPTY

\* C5: a request without nip and email, or without password, is answered
\* 400 with status "F" (the identifier checked first) before any database
\* client is obtained and before any query is issued.
C5_ValidationBeforeDatabase ==
    (pc # "idle" /\ body.ok) =>
        /\ (~Present(body.nip) /\ ~Present(body.email)) =>
                /\ Answered(400, "F", "NIP atau Email wajib diisi")
                /\ log = <<>>
        /\ ((Present(body.nip) \/ Present(body.email)) /\ ~Present(body.password)) =>
                /\ Answered(400, "F", "Password wajib diisi")
                /\ log = <<>>

\* a request naming an existing user but carrying no password was refused
\* with nothing read
C5_Witness ==
    /\ Answered(400, "F", "Password wajib diisi")
    /\ body.nip = N1
    /\ body.password = NULL
    /\ log = <<>>

\* C6: when the identifier of a request that carries a password, and whose
\* queries the database answers, matches a user whose stored hash does not
\* match that password, the answer is 417,
\* "F", "Password salah!" and the resolver is never run for the request.
C6_WrongPassword ==
    (ValidBody /\ QueriesAnswered /\ LoginMatches # {}
        /\ Present(MatchedRow.password)
        /\ MatchedRow.password # Hash(body.password)) =>
        /\ pc # "resolve"
        /\ ~InLog("resolve")
        /\ ~hres.called
        /\ pc = "done" => Answered(417, "F", "Password salah!")

\* the subject user sent a wrong password and got 417
C6_Witness ==
    /\ Answered(417, "F", "Password salah!")
    /\ body.nip = N1
    /\ body.password = P2
    /\ InLog("compare")

\* C7: when no user row matches the nip (or, without a nip, the email) of
\* a request that carries a password, and the database answers the lookup,
\* the answer is 404, "F", "User tidak ditemukan" and no password is
\* compared.
C7_UnknownUser ==
    (ValidBody /\ QueriesAnswered /\ LoginMatches = {}) =>
        /\ pc \notin {"compare", "resolve"}
        /\ ~InLog("compare")
        /\ pc = "done" => Answered(404, "F", "User tidak ditemukan")

\* an unknown nip was answered 404 although the email sent with it names
\* a user
C7_Witness ==
    /\ Answered(404, "F", "User tidak ditemukan")
    /\ body.nip = N9
    /\ body.email = E1
    /\ \E i \in DOMAIN users : users[i].email = E1

\* the response carries the identity of the row and its access level
IdentityOf(row) ==
    /\ resp.ID = row.id_user
    /\ resp.Fullname = row.full_name
    /\ resp.Role = row.id_role
    /\ resp.AccessLevel = <<LevelOf(row.id_user)>>

----------------------------------------------------------------------------
(* What the claims about the guest-token route speak of. *)

\* the request in progress passed the validation of its handler
GuestValid ==
    /\ gpc # "idle"
    /\ greq.ok
    /\ Present(greq.username)
    /\ IF greq.method = "GET" THEN Present(greq.level.s)
       ELSE greq.level.isNum \/ greq.level.s # NULL

\* the level as the handler reads it
RequestedKey == IF greq.level.isNum THEN NumText(greq.level.n) ELSE greq.level.s

TableKeys == {NumText(n) : n \in 0..TableMaxLevel}

\* C9 as stated: a level outside the table keys "0".."5" is served with
\* the level-0 dashboard id, a level inside it with the id the table
\* assigns to it.
C9_FallbackToAdmin ==
    GuestValid =>
        IF RequestedKey \in TableKeys
        THEN \E n \in 0..TableMaxLevel :
                 NumText(n) = RequestedKey /\ dashboardId = dashboards[n]
        ELSE dashboardId = dashboards[0]

----------------------------------------------------------------------------
(* The failure envelope and the order of the credential checks. *)

\* C11: every failure response of the login endpoint has status "F" and a
\* message and nothing else; a request whose body does not parse, whose
\* query the database rejects or whose resolver throws is answered 500,
\* "F", "Internal server error", a message that is not the error's.
C11_FailureEnvelope ==
    pc = "done" =>
        /\ resp.status # "T" =>
                /\ resp.status = "F"
                /\ resp.message # ""
                /\ resp.http \in {400, 404, 417, 500}
                /\ [resp EXCEPT !.http = 0, !.status = "", !.message = ""] = NoResponse
        /\ (~body.ok \/ InLog("rejected") \/ hres.threw) =>
                /\ Answered(500, "F", "Internal server error")
                /\ resp.message # hres.error
                /\ resp.message # QueryRejected

\* one of the resolver's queries was rejected after the password matched
C11_Witness ==
    /\ Answered(500, "F", "Internal server error")
    /\ hres.threw
    /\ hres.error = QueryRejected
    /\ InLog("resolve")
    /\ body.password = P1

\* C12: a request that passed validation and matched a user record
\* without a stored hash is answered neither as an unknown user nor as a
\* wrong password, and no password is compared for it.
C12_NoPasswordDistinct ==
    (pc = "done" /\ ValidBody /\ QueriesAnswered /\ LoginMatches # {}
        /\ ~Present(MatchedRow.password)) =>
        /\ ~Answered(404, "F", "User tidak ditemukan")
        /\ ~Answered(417, "F", "Password salah!")
        /\ ~InLog("compare")

----------------------------------------------------------------------------
(* DatabaseManager: the process-wide cache of Prisma clients.  A client    *)
(* object is its index in clients, the order of construction.              *)

\* bound on the clients constructed in one run
MaxClients == 4

\* the generated client class constructed for a name
clientClass(dbName) ==
    IF dbName = "telephony_account" THEN "TelephonyAccountClient"
    ELSE "TelephonyMasterClient"

newClient(dbName) ==
    [db |-> dbName, class |-> clientClass(dbName), disconnected |-> FALSE]

\* initialize(), run by getClient while no URL is cached
initialize == IF connectionUrls = {} THEN env ELSE connectionUrls

\* the outcome of a getClient call: thrown or the client, and the maps after
ManagerOutcome(threw, client, cache, made) ==
    [threw |-> threw, client |-> client, urls |-> initialize,
     instances |-> cache, clients |-> made]

\* getClient that never looks into the cache
getClient_noCache(dbName) ==
    IF dbName \notin initialize
    THEN ManagerOutcome(TRUE, 0, instances, clients)
    ELSE ManagerOutcome(FALSE, Len(clients) + 1,
                        [instances EXCEPT ![dbName] = Len(clients) + 1],
                        Append(clients, newClient(dbName)))

\* getClient that constructs and caches the client before it checks the URL
getClient_cachesFirst(dbName) ==
    IF instances[dbName] # 0
    THEN ManagerOutcome(FALSE, instances[dbName], instances, clients)
    ELSE ManagerOutcome(dbName \notin initialize,
                        IF dbName \in initialize THEN Len(clients) + 1 ELSE 0,
                        [instances EXCEPT ![dbName] = Len(clients) + 1],
                        Append(clients, newClient(dbName)))

getClient(dbName) ==
    IF instances[dbName] # 0
    THEN ManagerOutcome(FALSE, instances[dbName], instances, clients)
    ELSE IF dbName \notin initialize
    THEN ManagerOutcome(TRUE, 0, instances, clients)
    ELSE ManagerOutcome(FALSE, Len(clients) + 1,
                        [instances EXCEPT ![dbName] = Len(clients) + 1],
                        Append(clients, newClient(dbName)))

getTelephonyAccountClient == getClient("telephony_account")

\* getTelephonyMasterClient that asks for the account database
getTelephonyMasterClient_account == getClient("telephony_account")

getTelephonyMasterClient == getClient("telephony_master")

\* a getter was called as op for dbName and ended as r
ManagerCall(op, dbName, r) ==
    /\ Len(r.clients) <= MaxClients
    /\ connectionUrls' = r.urls
    /\ instances' = r.instances
    /\ clients' = r.clients
    /\ dcall' = [op |-> op, name |-> dbName, threw |-> r.threw, client |-> r.client]
    /\ asked' = asked \cup {dbName}
    /\ UNCHANGED <<dbvars, resolvervars, loginvars, guestvars, clientvars,
                   fallbackvars, memo, env, dpc>>

GetClient(dbName) == ManagerCall("getClient", dbName, getClient(dbName))

GetTelephonyAccountClient ==
    ManagerCall("getTelephonyAccountClient", "telephony_account",
                getTelephonyAccountClient)

GetTelephonyMasterClient ==
    ManagerCall("getTelephonyMasterClient", "telephony_master",
                getTelephonyMasterClient)

\* getConnectionUrl: throws unless the name has a cached URL
GetConnectionUrl(dbName) ==
    /\ dcall' = [op |-> "getConnectionUrl", name |-> dbName,
                 threw |-> dbName \notin connectionUrls, client |-> 0]
    /\ UNCHANGED <<dbvars, resolvervars, loginvars, guestvars, clientvars,
                   fallbackvars, memo, env, connectionUrls, instances, clients,
                   dpc, asked>>

\* the clients the cache holds
Cached == {instances[n] : n \in AskedNames} \ {0}

\* disconnectAll up to its await: $disconnect is invoked on every cached client
DisconnectAllStart ==
    /\ dpc # "awaiting"
    /\ dpc' = "awaiting"
    /\ clients' = [i \in DOMAIN clients |->
                    IF i \in Cached THEN [clients[i] EXCEPT !.disconnected = TRUE]
                    ELSE clients[i]]
    /\ dcall' = [op |-> "disconnectAll", name |-> "", threw |-> FALSE, client |-> 0]
    /\ UNCHANGED <<dbvars, resolvervars, loginvars, guestvars, clientvars,
                   fallbackvars, memo, env, connectionUrls, instances, asked>>

\* disconnectAll after its await: clear(), unless a $disconnect rejected
DisconnectAllFinish(rejects) ==
    /\ dpc = "awaiting"
    /\ dpc' = "returned"
    /\ instances' = IF rejects THEN instances ELSE NoInstances
    /\ dcall' = [op |-> "disconnectAll", name |-> "", threw |-> rejects, client |-> 0]
    /\ UNCHANGED <<dbvars, resolvervars, loginvars, guestvars, clientvars,
                   fallbackvars, memo, env, connectionUrls, clients, asked>>

\* the module is loaded: the URLs of the set variables are cached, no client
InitManager ==
    /\ users = <<Coordinator, TeamLead>>
    /\ roles = RolesTable
    /\ mappings = <<>>
    /\ categories = <<>>
    /\ hfor = NULL
    /\ hres = NotCalled
    /\ pc = "idle"
    /\ body = NoBody
    /\ found = <<>>
    /\ log = <<>>
    /\ resp = NoResponse
    /\ refreshTokenStore = NULL
    /\ gpc = "idle"
    /\ greq = NoGuestRequest
    /\ dashboardId = NULL
    /\ accessToken = NULL
    /\ csrfToken = NULL
    /\ glog = <<>>
    /\ gresp = NoGuestResponse
    /\ env \in SUBSET DatabaseNames
    /\ connectionUrls = env
    /\ instances = NoInstances
    /\ clients = <<>>
    /\ dcall = NoCall
    /\ dpc = "idle"
    /\ asked = {}
    /\ authStore = InitialStore
    /\ page = LoginPage
    /\ ffor = NULL
    /\ fres = NotCalled
    /\ memo = NoMemo
    /\ walk = NoWalk

NextManager ==
    \/ \E dbName \in AskedNames : GetClient(dbName)
    \/ GetTelephonyAccountClient
    \/ GetTelephonyMasterClient
    \/ \E dbName \in AskedNames : GetConnectionUrl(dbName)
    \/ DisconnectAllStart
    \/ \E rejects \in BOOLEAN : DisconnectAllFinish(rejects)

SpecManager == InitManager /\ [][NextManager]_vars

----------------------------------------------------------------------------
(* What the claims about DatabaseManager speak of. *)

Getters == {"getClient", "getTelephonyAccountClient", "getTelephonyMasterClient"}

\* C13: as long as only getClient and the two convenience getters were
\* called (no disconnectAll), a client exists only for a name that was asked
\* for, each name has at most one client, the cache entry of the name is that
\* client, two names never have the same client, and the last getter call
\* returned the cached client of its database, the convenience getters
\* included.
C13_LazySingleClient ==
    dpc = "idle" =>
        /\ \A i \in DOMAIN clients :
                /\ clients[i].db \in asked
                /\ instances[clients[i].db] = i
                /\ clients[i].class = clientClass(clients[i].db)
        /\ \A i, j \in DOMAIN clients : clients[i].db = clients[j].db => i = j
        /\ \A a, b \in AskedNames :
                (instances[a] # 0 /\ instances[a] = instances[b]) => a = b
        /\ (dcall.op \in Getters /\ ~dcall.threw) =>
                /\ dcall.client \in DOMAIN clients
                /\ dcall.client = instances[dcall.name]
                /\ clients[dcall.client].db = dcall.name
        /\ (dcall.op = "getTelephonyAccountClient" /\ ~dcall.threw) =>
                dcall.client = instances["telephony_account"]
        /\ (dcall.op = "getTelephonyMasterClient" /\ ~dcall.threw) =>
                dcall.client = instances["telephony_master"]

\* both clients exist, and the master getter returned the cached master
\* client, which is not the account client
C13_Witness ==
    /\ dpc = "idle"
    /\ Len(clients) = 2
    /\ dcall.op = "getTelephonyMasterClient"
    /\ dcall.client = instances["telephony_master"]
    /\ instances["telephony_account"] \notin {0, dcall.client}

\* C14 as stated: every client ever constructed is still the cache entry of
\* its database, so each database has at most one client ever constructed.
C14_NeverInvalidated ==
    \A i \in DOMAIN clients : instances[clients[i].db] = i

\* C14 amended: a cache entry is removed only by the clear() of a
\* disconnectAll that was awaiting its disconnects, which empties the whole
\* cache; no other operation removes or replaces an entry, and a client is
\* constructed for a database only while the cache holds none for it.
C14_RemovedOnlyByDisconnectAll ==
    [][/\ \A n \in AskedNames :
            (instances[n] # 0 /\ instances'[n] # instances[n]) =>
                /\ dpc = "awaiting"
                /\ dpc' = "returned"
                /\ instances' = NoInstances
       /\ Len(clients') > Len(clients) =>
            /\ Len(clients') = Len(clients) + 1
            /\ instances[clients'[Len(clients')].db] = 0
            /\ instances'[clients'[Len(clients')].db] = Len(clients')]_vars

\* after a disconnectAll a second client was constructed for the account
\* database
C14_Witness ==
    /\ Len(clients) = 2
    /\ clients[1].db = "telephony_account"
    /\ clients[2].db = "telephony_account"
    /\ clients[1].disconnected
    /\ instances["telephony_account"] = 2

\* C15: a getClient, convenience getter or getConnectionUrl call for a name
\* without a set URL variable (or outside the configuration) throws,
\* returns no client, constructs none and leaves the cache as it was.
C15_MissingUrlThrows ==
    [][(dcall'.op \in Getters \cup {"getConnectionUrl"} /\ dcall'.name \notin env) =>
            /\ dcall'.threw
            /\ dcall'.client = 0
            /\ instances' = instances
            /\ clients' = clients]_vars

\* getClient threw for the master database, whose variable is unset, while
\* the cache kept the account client
C15_Witness ==
    /\ dcall.op = "getClient"
    /\ dcall.name = "telephony_master"
    /\ dcall.threw
    /\ "telephony_master" \notin env
    /\ instances["telephony_account"] = 1
    /\ Len(clients) = 1

----------------------------------------------------------------------------
(* The browser: the persisted auth store, handleSubmit of the login page   *)
(* (one action per await) and handleLogout of the dashboard page.          *)

\* clearAuth that resets the whole store to its initial state
clearAuth_resetsAll(s) == InitialStore

clearAuth(s) ==
    [s EXCEPT !.guestToken = NULL, !.dashboardId = NULL, !.fullName = NULL,
              !.userId = NULL, !.userRole = NULL, !.accessLevel = <<>>,
              !.hierarchicalData = NULL]

setSupersetCredentials(s, token, dashboard, fullName) ==
    [s EXCEPT !.guestToken = token, !.dashboardId = dashboard, !.fullName = fullName]

setUserCredentials(s, userId, userRole, accessLevel, hierarchicalData) ==
    [s EXCEPT !.userId = userId, !.userRole = userRole,
              !.accessLevel = accessLevel, !.hierarchicalData = hierarchicalData]

setRehydrated(s, status) == [s EXCEPT !.isRehydrated = status]

\* embeds one visit of the dashboard page may start
MaxEmbeds == 2

\* a || b
OrElse(a, b) == IF Truthy(a) THEN a ELSE b

\* what the persisted storage may hold when the page loads: nothing, or the
\* store of an earlier session
SavedSession ==
    [guestToken |-> <<"g", "t">>, dashboardId |-> <<"d", "1">>,
     fullName |-> <<"A", "l">>, userId |-> U1, userRole |-> RoleId(4),
     accessLevel |-> <<4>>, hierarchicalData |-> U1, isRehydrated |-> TRUE]
PersistedStores == {InitialStore, SavedSession}

\* the responses POST /api/login can send for the stores as they are
LoginResponses ==
    {InternalError, userNotFound, noStoredPassword, wrongPassword,
     Failure(400, "NIP atau Email wajib diisi"), Failure(400, "Password wajib diisi")}
    \cup {LET h == getHierarchicalData(users[i].id_user)
          IN  IF h.threw THEN InternalError ELSE successResponse(users[i], h.data[1]) :
            i \in {j \in DOMAIN users : Truthy(users[j].password)}}

\* the answers of POST /api/superset as handleSubmit reads them
GuestTokenAnswers ==
    {[token |-> <<"g", "t">>, dashboardId |-> <<"d", "1">>],
     [token |-> NULL, dashboardId |-> NULL]}

\* the username of the guest-token request, always the hierarchy string
usernameOf_hierarchy(data) == data.hierarchical_data

\* level === 4 ? data.ID : data.hierarchical_data
usernameOf(data) ==
    IF data.AccessLevel = <<4>> THEN data.ID ELSE data.hierarchical_data

\* rehydration finishes and the callback of onRehydrateStorage runs.  Without
\* an error the persisted state was merged into the store and the callback
\* gets the store: _setRehydrated(true).  With an error persist passes no
\* state, and state?._setRehydrated(true) does nothing.  This happens, if at
\* all, before any handler of the pages has run; on the dashboard page the
\* changed flag makes the effect due.
Rehydrate(persisted, error) ==
    /\ ~authStore.isRehydrated
    /\ page.hydration = "pending"
    /\ page.event \in {"", "visit", "effect"}
    /\ authStore' = IF error THEN authStore ELSE setRehydrated(persisted, TRUE)
    /\ page' = [page EXCEPT !.event = "rehydrate",
                            !.hydration = IF error THEN "failed" ELSE "done",
                            !.due = IF error THEN @ ELSE page.route = "/dashboard"]
    /\ UNCHANGED <<dbvars, resolvervars, loginvars, guestvars, managervars,
                   fallbackvars, memo>>

\* handleSubmit up to the fetch of /api/login; valid: validate() passed
HandleSubmit(valid) ==
    /\ page.route = "/"
    /\ page.step = "form"
    /\ page' = IF valid
               THEN [page EXCEPT !.step = "login", !.loading = TRUE, !.message = "",
                                 !.data = NoResponse, !.request = NoGuestCall,
                                 !.event = "submit"]
               ELSE [page EXCEPT !.message = "validate", !.event = "submit"]
    /\ UNCHANGED <<dbvars, resolvervars, loginvars, guestvars, managervars,
                   fallbackvars, memo, authStore>>

\* the login answer arrives (failed: the fetch or res.json() rejected)
LoginAnswer(data, failed) ==
    /\ page.step = "login"
    /\ page' = IF failed
               THEN [page EXCEPT !.step = "form", !.loading = FALSE,
                                 !.message = "Terjadi kesalahan saat menghubungi server.",
                                 !.event = "loginAnswer"]
               ELSE IF data.status # "T"
               THEN [page EXCEPT !.step = "form", !.loading = FALSE, !.data = data,
                                 !.message = data.message, !.event = "loginAnswer"]
               ELSE [page EXCEPT !.step = "guest", !.data = data,
                                 !.request = [sent |-> TRUE, username |-> usernameOf(data),
                                              level |-> data.AccessLevel],
                                 !.event = "loginAnswer"]
    /\ UNCHANGED <<dbvars, resolvervars, loginvars, guestvars, managervars,
                   fallbackvars, memo, authStore>>

\* GuestTokenAnswer that stores the user's credentials before it looks at
\* the token
GuestTokenAnswer_writesFirst(g, failed) ==
    /\ page.step = "guest"
    /\ IF failed
       THEN /\ page' = [page EXCEPT !.step = "form", !.loading = FALSE,
                            !.message = "Terjadi kesalahan saat menghubungi server.",
                            !.event = "guestAnswer"]
            /\ authStore' = authStore
       ELSE IF ~Truthy(g.token)
       THEN /\ page' = [page EXCEPT !.step = "form", !.loading = FALSE,
                            !.message = "Gagal mendapatkan token Superset.",
                            !.event = "guestAnswer"]
            /\ authStore' =
                setUserCredentials(authStore, page.data.ID, page.data.Role,
                                   page.data.AccessLevel,
                                   OrElse(page.data.hierarchical_data, page.data.ID))
       ELSE /\ page' = [page EXCEPT !.step = "form", !.loading = FALSE,
                            !.route = "/dashboard", !.due = TRUE,
                            !.event = "guestAnswer"]
            /\ authStore' =
                setSupersetCredentials(
                    setUserCredentials(authStore, page.data.ID, page.data.Role,
                                       page.data.AccessLevel,
                                       OrElse(page.data.hierarchical_data, page.data.ID)),
                    g.token, g.dashboardId, page.data.Fullname)
    /\ UNCHANGED <<dbvars, resolvervars, loginvars, guestvars, managervars,
                   fallbackvars, memo>>

\* the guest-token answer arrives: the store is written and the dashboard
\* opened only when it carries a token
GuestTokenAnswer(g, failed) ==
    /\ page.step = "guest"
    /\ IF failed
       THEN /\ page' = [page EXCEPT !.step = "form", !.loading = FALSE,
                            !.message = "Terjadi kesalahan saat menghubungi server.",
                            !.event = "guestAnswer"]
            /\ authStore' = authStore
       ELSE IF ~Truthy(g.token)
       THEN /\ page' = [page EXCEPT !.step = "form", !.loading = FALSE,
                            !.message = "Gagal mendapatkan token Superset.",
                            !.event = "guestAnswer"]
            /\ authStore' = authStore
       ELSE /\ page' = [page EXCEPT !.step = "form", !.loading = FALSE,
                            !.route = "/dashboard", !.due = TRUE,
                            !.event = "guestAnswer"]
            /\ authStore' =
                setSupersetCredentials(
                    setUserCredentials(authStore, page.data.ID, page.data.Role,
                                       page.data.AccessLevel,
                                       OrElse(page.data.hierarchical_data, page.data.ID)),
                    g.token, g.dashboardId, page.data.Fullname)
    /\ UNCHANGED <<dbvars, resolvervars, loginvars, guestvars, managervars,
                   fallbackvars, memo>>

\* the dashboard page is opened by its address
VisitDashboard ==
    /\ page.route = "/"
    /\ page.step = "form"
    /\ page' = [page EXCEPT !.route = "/dashboard", !.due = TRUE, !.event = "visit"]
    /\ UNCHANGED <<dbvars, resolvervars, loginvars, guestvars, managervars,
                   fallbackvars, memo, authStore>>

\* handleLogout: clearAuth(), then router.push("/")
HandleLogout ==
    /\ page.route = "/dashboard"
    /\ authStore' = clearAuth(authStore)
    /\ page' = [LoginPage EXCEPT !.event = "logout", !.hydration = page.hydration]
    /\ UNCHANGED <<dbvars, resolvervars, loginvars, guestvars, managervars,
                   fallbackvars, memo>>

\* the effect of DashboardPage that skips the look at the mount point
DashboardEffect_ignoresMount(mounts) ==
    /\ page.route = "/dashboard"
    /\ page.due
    /\ page' =
            IF ~authStore.isRehydrated
            THEN [page EXCEPT !.due = FALSE, !.event = "effect"]
            ELSE IF ~Truthy(authStore.guestToken) \/ ~Truthy(authStore.dashboardId)
            THEN [LoginPage EXCEPT !.event = "redirect", !.hydration = page.hydration]
            ELSE [page EXCEPT !.due = FALSE, !.checking = FALSE, !.pending = TRUE,
                              !.embeds = @ + 1,
                              !.mount = IF mounts THEN 1 ELSE @,
                              !.event = "effect"]
    /\ UNCHANGED <<dbvars, resolvervars, loginvars, guestvars, managervars,
                   fallbackvars, memo, authStore>>

\* the effect of DashboardPage runs: nothing before the store is rehydrated;
\* then back to "/" without a token or a dashboard id; nothing when the
\* mount point has content; else embedDashboard is called.  mounts: the
\* embed puts its content into the mount point before the effect returns
DashboardEffect(mounts) ==
    /\ page.route = "/dashboard"
    /\ page.due
    /\ page' =
            IF ~authStore.isRehydrated
            THEN [page EXCEPT !.due = FALSE, !.event = "effect"]
            ELSE IF ~Truthy(authStore.guestToken) \/ ~Truthy(authStore.dashboardId)
            THEN [LoginPage EXCEPT !.event = "redirect", !.hydration = page.hydration]
            ELSE IF page.mount > 0
            THEN [page EXCEPT !.due = FALSE, !.checking = FALSE, !.event = "effect"]
            ELSE [page EXCEPT !.due = FALSE, !.checking = FALSE, !.pending = TRUE,
                              !.embeds = @ + 1,
                              !.mount = IF mounts THEN 1 ELSE @,
                              !.event = "effect"]
    /\ UNCHANGED <<dbvars, resolvervars, loginvars, guestvars, managervars,
                   fallbackvars, memo, authStore>>

\* the embedDashboard call settles: its content is in the mount point, or it
\* rejected and the catch block goes back to "/"
EmbedSettles(rejects) ==
    /\ page.route = "/dashboard"
    /\ page.pending
    /\ page' = IF rejects
               THEN [LoginPage EXCEPT !.event = "embedFailed",
                                      !.hydration = page.hydration]
               ELSE [page EXCEPT !.pending = FALSE, !.mount = 1, !.event = "embedded"]
    /\ UNCHANGED <<dbvars, resolvervars, loginvars, guestvars, managervars,
                   fallbackvars, memo, authStore>>

\* React runs the effect of the mounted page once more, as its development
\* mode does after the first run
EffectReruns ==
    /\ page.route = "/dashboard"
    /\ ~page.due
    /\ page.embeds < MaxEmbeds
    /\ page' = [page EXCEPT !.due = TRUE, !.event = "rerun"]
    /\ UNCHANGED <<dbvars, resolvervars, loginvars, guestvars, managervars,
                   fallbackvars, memo, authStore>>

InitClient ==
    /\ users \in LoginUserTables
    /\ roles = RolesTable
    /\ mappings \in LoginMappings
    /\ categories \in LoginCategories
    /\ hfor = NULL
    /\ hres = NotCalled
    /\ pc = "idle"
    /\ body = NoBody
    /\ found = <<>>
    /\ log = <<>>
    /\ resp = NoResponse
    /\ refreshTokenStore = NULL
    /\ gpc = "idle"
    /\ greq = NoGuestRequest
    /\ dashboardId = NULL
    /\ accessToken = NULL
    /\ csrfToken = NULL
    /\ glog = <<>>
    /\ gresp = NoGuestResponse
    /\ env = DatabaseNames
    /\ connectionUrls = DatabaseNames
    /\ instances = NoInstances
    /\ clients = <<>>
    /\ dcall = NoCall
    /\ dpc = "idle"
    /\ asked = {}
    /\ authStore = InitialStore
    /\ page = LoginPage
    /\ ffor = NULL
    /\ fres = NotCalled
    /\ memo = NoMemo
    /\ walk = NoWalk

NextClient ==
    \/ \E persisted \in PersistedStores, error \in BOOLEAN : Rehydrate(persisted, error)
    \/ \E valid \in BOOLEAN : HandleSubmit(valid)
    \/ \E data \in LoginResponses, failed \in BOOLEAN : LoginAnswer(data, failed)
    \/ \E g \in GuestTokenAnswers, failed \in BOOLEAN : GuestTokenAnswer(g, failed)
    \/ VisitDashboard
    \/ HandleLogout
    \/ \E mounts \in BOOLEAN : DashboardEffect(mounts)
    \/ \E rejects \in BOOLEAN : EmbedSettles(rejects)
    \/ EffectReruns

SpecClient == InitClient /\ [][NextClient]_vars

\* the browser runs what is due: a rehydration that was started finishes, a
\* due effect runs, a pending embed settles
SpecClientLive ==
    /\ InitClient
    /\ [][NextClient]_vars
    /\ WF_vars(\E persisted \in PersistedStores, error \in BOOLEAN :
                    Rehydrate(persisted, error))
    /\ WF_vars(\E mounts \in BOOLEAN : DashboardEffect(mounts))
    /\ WF_vars(\E rejects \in BOOLEAN : EmbedSettles(rejects))

----------------------------------------------------------------------------
(* What the claims about the browser speak of. *)

\* C16: a logout, from whatever state the auth store is in, leaves
\* guestToken, dashboardId, fullName, userId, userRole, accessLevel and
\* hierarchicalData null and _isRehydrated as it was.
C16_LogoutClearsStore ==
    [][(page.route = "/dashboard" /\ page'.event = "logout") =>
            /\ authStore'.guestToken = NULL
            /\ authStore'.dashboardId = NULL
            /\ authStore'.fullName = NULL
            /\ authStore'.userId = NULL
            /\ authStore'.userRole = NULL
            /\ authStore'.accessLevel = <<>>
            /\ authStore'.hierarchicalData = NULL
            /\ authStore'.isRehydrated = authStore.isRehydrated]_vars

\* a rehydrated store was cleared by a logout and is still rehydrated
C16_Witness ==
    /\ page.event = "logout"
    /\ authStore.isRehydrated
    /\ authStore.guestToken = NULL
    /\ authStore.userId = NULL

\* C17: the guest-token request of handleSubmit is sent only after a login
\* answer with status "T"; its level is the answer's AccessLevel, its
\* username is the answer's ID when that level is 4 and the answer's
\* hierarchical_data otherwise, and the username is neither missing nor
\* empty.
C17_GuestRequestIdentity ==
    page.request.sent =>
        /\ page.data.status = "T"
        /\ page.request.level = page.data.AccessLevel
        /\ page.data.AccessLevel = <<4>> => page.request.username = page.data.ID
        /\ page.data.AccessLevel # <<4>> =>
                page.request.username = page.data.hierarchical_data
        /\ Present(page.request.username)

\* an agent logged in and the guest token was requested for the bare id
C17_Witness ==
    /\ page.request.sent
    /\ page.step = "guest"
    /\ page.request.level = <<4>>
    /\ page.request.username = U1

----------------------------------------------------------------------------
(* Resolutions repeated while login requests run: the login handler and    *)
(* direct calls of the resolver interleaved over the same stores.          *)

\* the stores of these runs: the subject user is nameless or named, has no
\* role or is a team lead or an agent, with or without a supervisor
RepeatUserTables ==
    {t \in LoginUserTables :
        /\ t[1].id_role \in {NULL, RoleId(3), RoleId(4)}
        /\ t[1].id_tenant = T1}

InitRepeat ==
    /\ users \in RepeatUserTables
    /\ roles = RolesTable
    /\ mappings \in LoginMappings
    /\ categories \in LoginCategories
    /\ hfor = NULL
    /\ hres = NotCalled
    /\ pc = "idle"
    /\ body = NoBody
    /\ found = <<>>
    /\ log = <<>>
    /\ resp = NoResponse
    /\ refreshTokenStore = NULL
    /\ gpc = "idle"
    /\ greq = NoGuestRequest
    /\ dashboardId = NULL
    /\ accessToken = NULL
    /\ csrfToken = NULL
    /\ glog = <<>>
    /\ gresp = NoGuestResponse
    /\ env = DatabaseNames
    /\ connectionUrls = DatabaseNames
    /\ instances = NoInstances
    /\ clients = <<>>
    /\ dcall = NoCall
    /\ dpc = "idle"
    /\ asked = {}
    /\ authStore = InitialStore
    /\ page = LoginPage
    /\ ffor = NULL
    /\ fres = NotCalled
    /\ memo = NoMemo
    /\ walk = NoWalk

NextRepeat ==
    \/ \E b \in Bodies : PostReceive(b)
    \/ \E rejects \in BOOLEAN : PostLookup(rejects)
    \/ PostCompare
    \/ \E rejects \in BOOLEAN : PostResolve(rejects)
    \/ \E userId \in AskedIds : ResolveCall(userId)

SpecRepeat == InitRepeat /\ [][NextRepeat]_vars

----------------------------------------------------------------------------
(* getHierarchicalData of test-fallback-logic.ts, the variant with the     *)
(* role fallback and the supervisor walk for agents; here under the name   *)
(* getHierarchicalDataFallback.                                            *)

ROLE001 == <<"R", "O", "L", "E", "0", "0", "1">>
ROLE0007 == <<"R", "O", "L", "E", "0", "0", "0", "7">>
EXT == <<"E", "X", "T">>
EXT1 == <<"E", "X", "T", "1">>

UpperCase ==
    <<"A", "B", "C", "D", "E", "F", "G", "H", "I", "J", "K", "L", "M",
      "N", "O", "P", "Q", "R", "S", "T", "U", "V", "W", "X", "Y", "Z">>
LowerCase ==
    <<"a", "b", "c", "d", "e", "f", "g", "h", "i", "j", "k", "l", "m",
      "n", "o", "p", "q", "r", "s", "t", "u", "v", "w", "x", "y", "z">>

toLowerCase(s) ==
    [i \in DOMAIN s |->
        IF \E k \in DOMAIN UpperCase : UpperCase[k] = s[i]
        THEN LowerCase[CHOOSE k \in DOMAIN UpperCase : UpperCase[k] = s[i]]
        ELSE s[i]]

includes(s, part) == Occurrences(s, part) # {}

startsWith(s, prefix) ==
    Len(s) >= Len(prefix) /\ SubSeq(s, 1, Len(prefix)) = prefix

TenantWord == <<"t", "e", "n", "a", "n", "t">>
SuperAdminWords == <<"s", "u", "p", "e", "r", " ", "a", "d", "m", "i", "n">>

\* the roles of the runs of this variant: the five by level, and the two
\* role ids the code names, under names that say nothing
FallbackRolesTable ==
    RolesTable
    \o <<[id_role |-> ROLE001, access_level |-> 1, role_name |-> <<"R", "o", "o", "t">>],
         [id_role |-> ROLE0007, access_level |-> 5,
          role_name |-> <<"M", "i", "t", "r", "a">>]>>

\* an external user of role ROLE0007 without a tenant column
External ==
    [id_user |-> EXT1, full_name |-> <<"E", "x">>, id_role |-> ROLE0007,
     spv_id |-> NULL, id_tenant |-> NULL, nip |-> NULL, email |-> NULL,
     password |-> NULL]

FallbackUserTables ==
    {<<u, Coordinator, TeamLead, External>> :
        u \in [id_user : {U1}, full_name : {<<"A", "l">>},
               id_role : {NULL, R9, ROLE001, ROLE0007}
                            \cup {RoleId(n) : n \in 1..MaxAccessLevel},
               spv_id : {NULL, U3}, id_tenant : {NULL, T1},
               nip : {N1}, email : {E1}, password : {Hash(P1)}]}

FallbackMappings ==
    {<<>>}
    \cup {<<[id_user |-> U1, is_active |-> TRUE, id_category |-> c, id_tenant |-> t]>> :
            c \in {NULL, C1}, t \in {NULL, T2}}

FallbackCategories ==
    {<<[id_category |-> C1, is_active |-> TRUE, service |-> SVC, id_tenant |-> t]>> :
        t \in {NULL, T3}}

\* userRole?.access_level || 0 and userRole?.role_name || ""
fallbackLevelOf(user) ==
    IF fetchRole(user) = <<>> THEN 0 ELSE fetchRole(user)[1].access_level
fallbackRoleNameOf(user) ==
    IF fetchRole(user) = <<>> THEN EMPTY ELSE OrElse(fetchRole(user)[1].role_name, EMPTY)

isTenantRole(user) ==
    \/ \E name \in {fallbackRoleNameOf(user)} :
            \E lower \in {toLowerCase(name)} : includes(lower, TenantWord)
    \/ user.id_role = ROLE0007

isSuperAdminRole(user) ==
    \/ \E name \in {fallbackRoleNameOf(user)} :
            \E lower \in {toLowerCase(name)} : includes(lower, SuperAdminWords)
    \/ user.id_role = ROLE001

\* tenantId, service and categoryId of a user with an active mapping
mappedScope(mapping) ==
    LET category == fetchCategory(mapping)
        fromCategory ==
            IF category = <<>>
            THEN [tenantId |-> ZERO, service |-> ZERO, categoryId |-> ZERO]
            ELSE [tenantId |-> OrElse(category[1].id_tenant, ZERO),
                  service |-> OrElse(category[1].service, ZERO),
                  categoryId |-> OrElse(category[1].id_category, ZERO)]
    IN  IF Truthy(mapping[1].id_tenant)
        THEN [fromCategory EXCEPT !.tenantId = mapping[1].id_tenant]
        ELSE fromCategory

\* tenantId, service and categoryId of a user without one: the role decides
fallbackScope(user) ==
    IF isTenantRole(user)
    THEN [tenantId |-> IF Truthy(user.id_tenant) THEN user.id_tenant
                       ELSE IF startsWith(user.id_user, EXT) THEN user.id_user
                       ELSE ZERO,
          service |-> ALL, categoryId |-> ZERO]
    ELSE IF isSuperAdminRole(user)
    THEN [tenantId |-> ALL, service |-> ALL, categoryId |-> ZERO]
    ELSE [tenantId |-> OrElse(user.id_tenant, ZERO), service |-> ZERO,
          categoryId |-> ZERO]

\* fallbackPosition whose walk for an agent stops at the team lead
fallbackPosition_oneHop(user, level) ==
    LET spv == fetchSupervisor1(user)
    IN  IF level = 4
        THEN [koordinatorId |-> ZERO,
              tlId |-> Coalesce(OptUserId(spv), ZERO), agentId |-> user.id_user]
        ELSE IF level = 3
        THEN [koordinatorId |-> Coalesce(OptUserId(spv), ZERO),
              tlId |-> user.id_user, agentId |-> ZERO]
        ELSE IF level <= 2
        THEN [koordinatorId |-> user.id_user, tlId |-> ZERO, agentId |-> ZERO]
        ELSE [koordinatorId |-> ZERO, tlId |-> ZERO, agentId |-> user.id_user]

\* the positions by access level, with the walk up the supervisors
fallbackPosition(user, level) ==
    LET spv == fetchSupervisor1(user)
        spv2 == IF spv = <<>> THEN <<>> ELSE fetchSupervisor1(spv[1])
    IN  IF level = 4
        THEN [koordinatorId |-> Coalesce(OptUserId(spv2), ZERO),
              tlId |-> Coalesce(OptUserId(spv), ZERO), agentId |-> user.id_user]
        ELSE IF level = 3
        THEN [koordinatorId |-> Coalesce(OptUserId(spv), ZERO),
              tlId |-> user.id_user, agentId |-> ZERO]
        ELSE IF level <= 2
        THEN [koordinatorId |-> user.id_user, tlId |-> ZERO, agentId |-> ZERO]
        ELSE [koordinatorId |-> ZERO, tlId |-> ZERO, agentId |-> user.id_user]

getHierarchicalDataFallback(userId) ==
    LET user == findUserById(userId)
    IN  IF user = <<>> THEN Thrown("User not found")
        ELSE LET mapping == findActiveMapping(userId)
                 scope == IF mapping # <<>> THEN mappedScope(mapping)
                          ELSE fallbackScope(user[1])
                 pos == fallbackPosition(user[1], fallbackLevelOf(user[1]))
             IN  Returned([tenantId |-> scope.tenantId, service |-> scope.service,
                           categoryId |-> scope.categoryId,
                           koordinatorId |-> pos.koordinatorId,
                           tlId |-> pos.tlId, agentId |-> pos.agentId])

FallbackIds == AskedIds \cup {EXT1}

\* a direct call of this variant, as testFallbackLogic makes
FallbackCall(userId) ==
    /\ ffor' = userId
    /\ fres' = getHierarchicalDataFallback(userId)
    /\ UNCHANGED <<dbvars, resolvervars, loginvars, guestvars, managervars,
                   clientvars, memo, walk>>

\* both variants are called over the same stores
InitFallback ==
    /\ users \in FallbackUserTables
    /\ roles = FallbackRolesTable
    /\ mappings \in FallbackMappings
    /\ categories \in FallbackCategories
    /\ hfor = NULL
    /\ hres = NotCalled
    /\ pc = "idle"
    /\ body = NoBody
    /\ found = <<>>
    /\ log = <<>>
    /\ resp = NoResponse
    /\ refreshTokenStore = NULL
    /\ gpc = "idle"
    /\ greq = NoGuestRequest
    /\ dashboardId = NULL
    /\ accessToken = NULL
    /\ csrfToken = NULL
    /\ glog = <<>>
    /\ gresp = NoGuestResponse
    /\ env = DatabaseNames
    /\ connectionUrls = DatabaseNames
    /\ instances = NoInstances
    /\ clients = <<>>
    /\ dcall = NoCall
    /\ dpc = "idle"
    /\ asked = {}
    /\ authStore = InitialStore
    /\ page = LoginPage
    /\ ffor = NULL
    /\ fres = NotCalled
    /\ memo = NoMemo
    /\ walk = NoWalk

NextFallback ==
    \/ \E userId \in FallbackIds : FallbackCall(userId)
    \/ \E userId \in AskedIds : ResolveCall(userId)

SpecFallback == InitFallback /\ [][NextFallback]_vars

----------------------------------------------------------------------------
(* What the claims about tenant, service and category speak of. *)

\* the active mapping findFirst returns for the user, and the active
\* category that mapping names
MappingOf(id) ==
    mappings[CHOOSE i \in ActiveMappingsOf(id) : \A j \in ActiveMappingsOf(id) : i <= j]

CategoryRowsOf(id) ==
    {k \in DOMAIN categories :
        categories[k].is_active /\ categories[k].id_category = MappingOf(id).id_category}

CategoryOf(id) ==
    categories[CHOOSE k \in CategoryRowsOf(id) : \A j \in CategoryRowsOf(id) : k <= j]

\* the fallback variant returned a result for an existing user
FallbackResolvedFor(id) == fres.called /\ ~fres.threw /\ ffor = id /\ IsUser(id)

FallbackResult == fres.data[1]

\* the name of the user's role; empty without a role row
RoleNameOf(id) ==
    LET hit == {j \in DOMAIN roles : roles[j].id_role = RowOf(id).id_role}
    IN  IF hit = {} THEN EMPTY ELSE roles[CHOOSE j \in hit : TRUE].role_name

\* in result r of user id the mapping's tenant comes first, the category's
\* tenant serves when the mapping has none, and service and categoryId are
\* the category's ("0" when no category is resolved or its service is null)
MappingTenantFirst(id, r) ==
    /\ Present(MappingOf(id).id_tenant) => r.tenantId = MappingOf(id).id_tenant
    /\ CategoryRowsOf(id) # {} =>
            /\ (~Present(MappingOf(id).id_tenant) /\ Present(CategoryOf(id).id_tenant)) =>
                    r.tenantId = CategoryOf(id).id_tenant
            /\ r.service = IF Present(CategoryOf(id).service)
                           THEN CategoryOf(id).service ELSE ZERO
            /\ r.categoryId = CategoryOf(id).id_category
    /\ CategoryRowsOf(id) = {} => (r.service = ZERO /\ r.categoryId = ZERO)

\* C19: in every result either variant of the resolver returns for a user
\* who is not an agent and has an active mapping, tenantId is the mapping's
\* id_tenant when the mapping has one, also when the category has a tenant
\* too; it is the category's id_tenant when only the category has one; and
\* service and categoryId are those of the category.
C19_MappingTenantFirst ==
    \A id \in FallbackIds :
        (IsUser(id) /\ LevelOf(id) # 4 /\ ActiveMappingsOf(id) # {}) =>
            /\ ResolvedFor(id) => MappingTenantFirst(id, Result)
            /\ FallbackResolvedFor(id) => MappingTenantFirst(id, FallbackResult)

\* both variants resolved a coordinator whose mapping and whose category
\* both carry a tenant, and both answered the mapping's
C19_Witness ==
    /\ ResolvedFor(U1)
    /\ FallbackResolvedFor(U1)
    /\ LevelOf(U1) = 2
    /\ ActiveMappingsOf(U1) # {}
    /\ MappingOf(U1).id_tenant = T2
    /\ CategoryRowsOf(U1) # {}
    /\ CategoryOf(U1).id_tenant = T3
    /\ Result.tenantId = T2
    /\ FallbackResult.tenantId = T2
    /\ Result.service = SVC

\* in result r of user id the role decided tenant and service
RoleDecides(id, r) ==
    /\ (includes(toLowerCase(RoleNameOf(id)), SuperAdminWords)
            \/ RowOf(id).id_role = ROLE001) =>
            (r.tenantId = ALL /\ r.service = ALL)
    /\ (includes(toLowerCase(RoleNameOf(id)), TenantWord)
            \/ RowOf(id).id_role = ROLE0007) =>
            /\ r.service = ALL
            /\ Present(RowOf(id).id_tenant) => r.tenantId = RowOf(id).id_tenant
            /\ ~(r.tenantId = ZERO /\ r.service = ZERO)

\* C20 as stated: in every result of the resolver for a user who is not an
\* agent and has no active mapping, a role named "super admin" (or with id
\* ROLE001) gives tenantId "ALL" and service "ALL", and a role named
\* "tenant" (or with id ROLE0007) gives service "ALL" and the user's own
\* tenant, never "0" for both.
C20_RoleFallback ==
    \A id \in FallbackIds :
        (IsUser(id) /\ LevelOf(id) # 4 /\ ActiveMappingsOf(id) = {}) =>
            /\ ResolvedFor(id) => RoleDecides(id, Result)
            /\ FallbackResolvedFor(id) => RoleDecides(id, FallbackResult)

----------------------------------------------------------------------------
(* What the claims about the three position fields speak of. *)

\* result r of user id carries the user's own id where the heuristic for the
\* other access levels puts it
OwnIdPlaced(id, r) ==
    IF LevelOf(id) <= 2 THEN r.koordinatorId = id ELSE r.agentId = id

\* C21 as stated: in every result of the resolver for a user whose access
\* level is none of 2, 3 and 4 (level 0 of a user without a role included),
\* the user's own id is in koordinatorId when the level is at most 2 and in
\* agentId otherwise, so one of the three position fields carries it.
C21_OwnIdPlaced ==
    \A id \in FallbackIds :
        (IsUser(id) /\ LevelOf(id) \notin {2, 3, 4}) =>
            /\ ResolvedFor(id) => OwnIdPlaced(id, Result)
            /\ FallbackResolvedFor(id) => OwnIdPlaced(id, FallbackResult)

----------------------------------------------------------------------------
(* The resolver one lookup at a time.  Every await of getHierarchicalData  *)
(* is a step; walk.n counts the findFirst calls made on each table after   *)
(* the lookup of the user itself.  The optimized variant of the login      *)
(* route reads role, mapping, category, supervisor; the variant with the   *)
(* supervisor walk reads mapping, role, category, supervisors.             *)

\* no resolution makes this many lookups of one kind
MaxLookups == 4

LookupIds == {U1, U3, U9}

\* supervisors that form a loop, a chain of three, or name nobody
LookupUserTables ==
    {<<u, [Coordinator EXCEPT !.spv_id = c], [TeamLead EXCEPT !.spv_id = t], External>> :
        u \in [id_user : {U1}, full_name : {<<"A", "l">>},
               id_role : {NULL, RoleId(2), RoleId(3), RoleId(4)},
               spv_id : {NULL, U1, U3, U9}, id_tenant : {T1},
               nip : {N1}, email : {E1}, password : {Hash(P1)}],
        c \in {NULL, EXT1},
        t \in {NULL, U1, U2}}

LookupMappings ==
    {<<>>, <<[id_user |-> U1, is_active |-> TRUE, id_category |-> C1, id_tenant |-> T2]>>}

Resting == walk.pc \in {"idle", "returned", "thrown"}

\* the walk that looks up supervisors for as long as one is named
walkOn_whileSupervised(variant, level, hops, row) ==
    variant = "fallback" /\ level = 4 /\ row # <<>> /\ Truthy(row[1].spv_id)

\* after the lookup of supervisor number hops found row: whether another
\* supervisor is looked up.  Only the agent's walk has a second hop.
walkOn(variant, level, hops, row) ==
    variant = "fallback" /\ level = 4 /\ hops < 2 /\ row # <<>> /\ Truthy(row[1].spv_id)

\* the caller receives the outcome
Deliver(variant, userId, result) ==
    IF variant = "optimized"
    THEN hfor' = userId /\ hres' = result /\ UNCHANGED <<ffor, fres>>
    ELSE ffor' = userId /\ fres' = result /\ UNCHANGED <<hfor, hres>>

\* the call and the lookup of the user itself
StartResolution(variant, userId) ==
    /\ Resting
    /\ LET user == findUserById(userId)
           err == IF variant = "optimized" THEN baseUserError(user)
                  ELSE IF user = <<>> THEN "User not found" ELSE ""
       IN  IF err # ""
           THEN /\ walk' = [NoWalk EXCEPT !.variant = variant, !.id = userId,
                                          !.pc = "thrown"]
                /\ Deliver(variant, userId, Thrown(err))
           ELSE /\ walk' = [NoWalk EXCEPT !.variant = variant, !.id = userId,
                                          !.user = user,
                                          !.pc = IF variant = "optimized"
                                                 THEN "role" ELSE "mapping"]
                /\ UNCHANGED <<hfor, hres, ffor, fres>>
    /\ UNCHANGED <<dbvars, loginvars, guestvars, managervars, clientvars, memo>>

\* user.id_role ? mst_role.findFirst(...) : null, and the early return
LookupRole ==
    /\ walk.pc = "role"
    /\ LET user == walk.user[1]
           level == IF walk.variant = "optimized"
                    THEN accessLevelOf(fetchRole(user)) ELSE fallbackLevelOf(user)
       IN  walk' = [walk EXCEPT
                !.level = level,
                !.n.role = @ + (IF Truthy(user.id_role) THEN 1 ELSE 0),
                !.pc = IF walk.variant # "optimized" THEN "category"
                       ELSE IF level = 4 THEN "return" ELSE "mapping"]
    /\ UNCHANGED <<dbvars, resolvervars, loginvars, guestvars, managervars,
                   clientvars, ffor, fres, memo>>

\* mst_user_mapping.findFirst
LookupMapping ==
    /\ walk.pc = "mapping"
    /\ walk' = [walk EXCEPT
                !.mapping = findActiveMapping(walk.id),
                !.n.mapping = @ + 1,
                !.pc = IF walk.variant = "optimized" THEN "category" ELSE "role"]
    /\ UNCHANGED <<dbvars, resolvervars, loginvars, guestvars, managervars,
                   clientvars, ffor, fres, memo>>

\* mst_category_telephony.findFirst when the mapping names a category; then
\* on to the supervisor when one is to be read
LookupCategory ==
    /\ walk.pc = "category"
    /\ LET user == walk.user[1]
           named == walk.mapping # <<>> /\ Truthy(walk.mapping[1].id_category)
           supervised ==
               /\ Truthy(user.spv_id)
               /\ walk.variant = "optimized" \/ walk.level \in {3, 4}
       IN  walk' = [walk EXCEPT
                !.n.category = @ + (IF named THEN 1 ELSE 0),
                !.pc = IF supervised THEN "supervisor" ELSE "return"]
    /\ UNCHANGED <<dbvars, resolvervars, loginvars, guestvars, managervars,
                   clientvars, ffor, fres, memo>>

\* mst_users.findFirst of the user the last row read names as supervisor
LookupSupervisor ==
    /\ walk.pc = "supervisor"
    /\ walk.n.supervisor < MaxLookups
    /\ LET named == IF walk.n.supervisor = 0 THEN walk.user[1].spv_id
                    ELSE walk.hop[1].spv_id
           row == findUserById(named)
       IN  walk' = [walk EXCEPT
                !.hop = row,
                !.n.supervisor = @ + 1,
                !.pc = IF walkOn(walk.variant, walk.level, walk.n.supervisor + 1, row)
                       THEN "supervisor" ELSE "return"]
    /\ UNCHANGED <<dbvars, resolvervars, loginvars, guestvars, managervars,
                   clientvars, ffor, fres, memo>>

\* the return statement
ReturnResult ==
    /\ walk.pc = "return"
    /\ walk' = [walk EXCEPT !.pc = "returned"]
    /\ Deliver(walk.variant, walk.id,
               IF walk.variant = "optimized" THEN getHierarchicalData(walk.id)
               ELSE getHierarchicalDataFallback(walk.id))
    /\ UNCHANGED <<dbvars, loginvars, guestvars, managervars, clientvars, memo>>

InitLookups ==
    /\ users \in LookupUserTables
    /\ roles = RolesTable
    /\ mappings \in LookupMappings
    /\ categories = <<[id_category |-> C1, is_active |-> TRUE, service |-> SVC,
                       id_tenant |-> T3]>>
    /\ hfor = NULL
    /\ hres = NotCalled
    /\ pc = "idle"
    /\ body = NoBody
    /\ found = <<>>
    /\ log = <<>>
    /\ resp = NoResponse
    /\ refreshTokenStore = NULL
    /\ gpc = "idle"
    /\ greq = NoGuestRequest
    /\ dashboardId = NULL
    /\ accessToken = NULL
    /\ csrfToken = NULL
    /\ glog = <<>>
    /\ gresp = NoGuestResponse
    /\ env = DatabaseNames
    /\ connectionUrls = DatabaseNames
    /\ instances = NoInstances
    /\ clients = <<>>
    /\ dcall = NoCall
    /\ dpc = "idle"
    /\ asked = {}
    /\ authStore = InitialStore
    /\ page = LoginPage
    /\ ffor = NULL
    /\ fres = NotCalled
    /\ memo = NoMemo
    /\ walk = NoWalk

LookupStep ==
    \/ LookupRole
    \/ LookupMapping
    \/ LookupCategory
    \/ LookupSupervisor
    \/ ReturnResult

NextLookups ==
    \/ \E variant \in {"optimized", "fallback"}, userId \in LookupIds :
            StartResolution(variant, userId)
    \/ LookupStep

\* a resolution that was called runs on: each await is eventually answered
SpecLookups == InitLookups /\ [][NextLookups]_vars /\ WF_vars(LookupStep)

\* the users a supervisor chain from id passes, the user itself left out
RECURSIVE ChainFrom(_, _)
ChainFrom(id, k) ==
    IF k = 0 \/ ~IsUser(id) \/ ~Present(RowOf(id).spv_id) THEN <<>>
    ELSE <<RowOf(id).spv_id>> \o ChainFrom(RowOf(id).spv_id, k - 1)

\* the lookups made so far are within the bounds of one resolution
WithinLookupBounds ==
    /\ walk.n.supervisor <= 2
    /\ walk.n.mapping <= 1
    /\ walk.n.category <= 1
    /\ walk.n.role <= 1

\* C22: every hierarchy resolution makes at most 2 supervisor lookups, 1
\* mapping lookup, 1 category lookup and 1 role lookup, and every resolution
\* that was called ends (returns or throws), whatever the stores hold: a
\* user who is the user's own supervisor, two users who supervise each
\* other, a supervisor chain longer than two.
C22_BoundedLookups == [](WithinLookupBounds) /\ (~Resting ~> Resting)

\* an agent in a loop of supervisors (U1 and U3 name each other) was
\* resolved by the walking variant with exactly two supervisor lookups
C22_Witness ==
    /\ walk.pc = "returned"
    /\ walk.variant = "fallback"
    /\ walk.id = U1
    /\ walk.level = 4
    /\ ChainFrom(U1, 3) = <<U3, U1, U3>>
    /\ walk.n.supervisor = 2
    /\ walk.n.mapping = 1
    /\ walk.n.role = 1

\* the row the user's spv_id names, when it names one
SupervisorOf(id) ==
    IF IsUser(id) /\ Present(RowOf(id).spv_id) /\ IsUser(RowOf(id).spv_id)
    THEN <<RowOf(RowOf(id).spv_id)>> ELSE <<>>

Positions(r) == {f \in {"koordinatorId", "tlId", "agentId"} : r[f] # ZERO}

\* C24 as stated: in every result either variant returns for a user who is
\* not an agent, at most one of koordinatorId, tlId and agentId differs
\* from "0".
C24_AtMostOnePosition ==
    \A id \in FallbackIds :
        (IsUser(id) /\ LevelOf(id) # 4) =>
            /\ ResolvedFor(id) => Cardinality(Positions(Result)) <= 1
            /\ FallbackResolvedFor(id) => Cardinality(Positions(FallbackResult)) <= 1

\* what holds of result r of user id: one position at most, but for a team
\* lead with a supervisor and for an agent whose walk found one
PositionsOf(id, r) ==
    /\ LevelOf(id) \notin {3, 4} => Cardinality(Positions(r)) <= 1
    /\ LevelOf(id) = 3 =>
            /\ r.tlId = id
            /\ r.agentId = ZERO
            /\ r.koordinatorId # ZERO <=> SupervisorOf(id) # <<>>
    /\ LevelOf(id) = 4 =>
            /\ r.agentId = id
            /\ Cardinality(Positions(r)) > 1 => SupervisorOf(id) # <<>>

\* C24 amended: in every result either variant returns for a user whose
\* access level is neither 3 nor 4, at most one of koordinatorId, tlId and
\* agentId differs from "0"; for a team lead (level 3) tlId is the user's
\* own id, agentId is "0" and koordinatorId differs from "0" exactly when
\* the user spv_id names exists; for an agent more than one differs from
\* "0" only when the agent's supervisor exists.
C24_AtMostOneUnlessSupervised ==
    \A id \in FallbackIds :
        IsUser(id) =>
            /\ ResolvedFor(id) => PositionsOf(id, Result)
            /\ FallbackResolvedFor(id) => PositionsOf(id, FallbackResult)

\* both variants resolved a team lead whose supervisor exists: two positions
\* differ from "0" in each result
C24_Witness ==
    /\ ResolvedFor(U1)
    /\ FallbackResolvedFor(U1)
    /\ LevelOf(U1) = 3
    /\ SupervisorOf(U1) # <<>>
    /\ Positions(Result) = {"koordinatorId", "tlId"}
    /\ Positions(FallbackResult) = {"koordinatorId", "tlId"}

----------------------------------------------------------------------------
(* What the claim about disconnectAll and concurrent getClient calls       *)
(* speaks of.                                                              *)

\* C25 as stated: under any interleaving of getClient calls with a
\* disconnectAll that is awaiting its disconnects, every client that was
\* ever constructed is still in the instance cache or has had $disconnect
\* invoked on it.
C25_NoClientLeaks ==
    \A i \in DOMAIN clients : i \in Cached \/ clients[i].disconnected

----------------------------------------------------------------------------
(* What the claims about the submit flow and the dashboard page speak of.  *)

\* the step is one of handleSubmit
SubmitFlowStep == page.route = "/" /\ page'.event \in {"submit", "loginAnswer", "guestAnswer"}

\* C26: a step of handleSubmit writes the auth store or navigates only when
\* it is the arrival of a guest-token answer with a token, after a login
\* answer of status "T": then the store holds the credentials of that login
\* answer and that token and the route is /dashboard.  A step that ends the
\* flow leaves loading false, and a step that ends it with a message
\* (login rejected, token missing, network error) leaves the store and the
\* route as they were.
C26_StoreWrittenLast ==
    [][SubmitFlowStep =>
        /\ (authStore' # authStore \/ page'.route # page.route) =>
                /\ page'.event = "guestAnswer"
                /\ page.step = "guest"
                /\ page.request.sent
                /\ page.data.status = "T"
                /\ Present(authStore'.guestToken)
                /\ authStore' =
                    setSupersetCredentials(
                        setUserCredentials(authStore, page.data.ID, page.data.Role,
                                           page.data.AccessLevel,
                                           OrElse(page.data.hierarchical_data, page.data.ID)),
                        authStore'.guestToken, authStore'.dashboardId,
                        page.data.Fullname)
                /\ page'.route = "/dashboard"
        /\ page'.step \in {"login", "guest"} => page'.loading
        /\ page'.step = "form" => ~page'.loading
        /\ page'.message # "" =>
                (authStore' = authStore /\ page'.route = page.route)]_vars

\* a login of status "T" and a guest-token answer with a token ended the
\* flow on the dashboard with the store written
C26_Witness ==
    /\ page.event = "guestAnswer"
    /\ page.route = "/dashboard"
    /\ page.data.status = "T"
    /\ ~page.loading
    /\ authStore.guestToken = <<"g", "t">>
    /\ authStore.userId = page.data.ID
    /\ authStore.fullName = page.data.Fullname

\* the store holds what the dashboard page needs to embed
CanEmbed == Present(authStore.guestToken) /\ Present(authStore.dashboardId)

\* C27: the dashboard page calls embedDashboard only when the auth store is
\* rehydrated, guestToken and dashboardId are both set and the mount point
\* is empty, so never into a mount point that already has content; and a
\* run of its effect with the store rehydrated and one of the two null
\* (as after a logout) goes back to "/" and starts no embed.
C27_EmbedOnlyWhenReady ==
    [][/\ page'.embeds > page.embeds =>
            /\ page.route = "/dashboard"
            /\ authStore.isRehydrated
            /\ CanEmbed
            /\ page.mount = 0
            /\ page'.embeds = page.embeds + 1
       /\ (page.route = "/dashboard" /\ page.due /\ page' # page
                /\ page'.event \in {"effect", "redirect"}
                /\ authStore.isRehydrated /\ ~CanEmbed) =>
            /\ page'.route = "/"
            /\ page'.event = "redirect"
            /\ page'.embeds = 0
            /\ ~page'.pending]_vars

\* the dashboard page was opened with a rehydrated store that holds no token
\* and no dashboard id, and its effect went back to "/"
C27_WitnessRedirect ==
    /\ page.event = "redirect"
    /\ page.route = "/"
    /\ authStore.isRehydrated
    /\ authStore.guestToken = NULL
    /\ authStore.dashboardId = NULL
    /\ page.embeds = 0

\* an embed was started into the empty mount point, and the effect that ran
\* again found the content and started none
C27_Witness ==
    /\ page.route = "/dashboard"
    /\ page.event = "effect"
    /\ page.embeds = 1
    /\ page.mount = 1
    /\ ~page.due

\* C28 as stated: once rehydration of the persisted auth store has finished,
\* with or without an error, _isRehydrated eventually is true, and a
\* dashboard page that is open eventually leaves its "Checking
\* authentication" state.
C28_EventuallyRehydrated ==
    /\ (page.hydration # "pending") ~> authStore.isRehydrated
    /\ (page.hydration # "pending" /\ page.route = "/dashboard")
            ~> (page.route = "/" \/ ~page.checking)

----------------------------------------------------------------------------
(* What the claims about the Superset tokens speak of. *)

\* getValidAccessToken has returned to the POST handler, which sends its own
\* login next
TokenReturned == greq.method = "POST" /\ gpc = "login2"

\* C29 as stated: getValidAccessToken throws or returns a non-empty access
\* token, after a successful refresh as after a fresh login; an answer to
\* the refresh never ends the request, it is followed by the handler's
\* login or by the fresh login; and a fresh login that succeeded leaves a
\* non-empty refresh token in the store whenever it wrote the store.
C29_ValidAccessToken ==
    /\ [](TokenReturned => Present(accessToken))
    /\ [][/\ gpc = "refresh" => gpc' \in {"login2", "adminLogin"}
          /\ (gpc = "adminLogin" /\ gpc' = "login2") =>
                /\ Present(accessToken')
                /\ refreshTokenStore' # refreshTokenStore =>
                        Present(refreshTokenStore')]_vars

\* where a request is sent to Superset in the order of glog
Sent(what) == {i \in DOMAIN glog : glog[i] = what}

\* C30 as stated: the guest_token request is sent only after a login, with
\* an access token obtained, and after the csrf_token request, with a
\* non-empty CSRF token obtained; a request without username or level is
\* answered 400 with nothing sent to Superset; and a request that ends
\* without an access token or without a CSRF token is answered with an
\* error and no guest_token request was sent.
C30_GuestTokenLast ==
    /\ Sent("guest_token") # {} =>
            /\ Present(accessToken)
            /\ Present(csrfToken)
            /\ \A g \in Sent("guest_token") :
                    \E l \in Sent("login"), c \in Sent("csrf") : l < c /\ c < g
    /\ (gpc = "done" /\ greq.ok /\ ~GuestValid) =>
            (gresp.http = 400 /\ glog = <<>>)
    /\ (gpc = "done" /\ (~Present(accessToken) \/ ~Present(csrfToken))) =>
            /\ gresp.http \in {400, 500}
            /\ gresp.error # ""
            /\ Sent("guest_token") = {}

====
